---- MODULE Spec2Model ----
(***************************************************************************)
(* Model of the gxai structured-I/O inference engine (src/main.ts):        *)
(* the markup codec, the payment-retry transport, the streaming tag        *)
(* demultiplexer and the Agent.run pipeline.                               *)
(*                                                                         *)
(* Text is modelled as a sequence of one-character strings, so that the    *)
(* scanners below work on characters exactly as the code does.             *)
(***************************************************************************)
EXTENDS Integers, Sequences, FiniteSets, TLC

(***************************************************************************)
(* Text helpers (JavaScript String methods used by the code)               *)
(***************************************************************************)
IsWs(c) == c \in {" ", "\n", "\t"}

Digits == {"0", "1", "2", "3", "4", "5", "6", "7", "8", "9"}

RECURSIVE TrimStart(_)
TrimStart(s) ==
  IF s = <<>> THEN <<>>
  ELSE IF IsWs(Head(s)) THEN TrimStart(Tail(s)) ELSE s

RECURSIVE TrimEnd(_)
TrimEnd(s) ==
  IF s = <<>> THEN <<>>
  ELSE IF IsWs(s[Len(s)]) THEN TrimEnd(SubSeq(s, 1, Len(s) - 1)) ELSE s

Trim(s) == TrimEnd(TrimStart(s))

Includes(s, c) == \E i \in 1..Len(s) : s[i] = c

\* s has t as a substring starting at index i
HasAt(s, i, t) ==
  /\ i >= 1
  /\ i + Len(t) - 1 <= Len(s)
  /\ \A k \in 1..Len(t) : s[i + k - 1] = t[k]

StartsWith(s, t) == HasAt(s, 1, t)

RECURSIVE JoinWith(_, _)
JoinWith(ss, sep) ==
  IF ss = <<>> THEN <<>>
  ELSE IF Len(ss) = 1 THEN ss[1]
  ELSE ss[1] \o sep \o JoinWith(Tail(ss), sep)

(***************************************************************************)
(* Markup codec: xmlToObj                                                  *)
(* Decoded values: a string, a boolean, a number (kept as its digits) or   *)
(* an object (a function from tag names to decoded values).                *)
(***************************************************************************)
StrV(s) == [kind |-> "str", v |-> s]
BoolV(b) == [kind |-> "bool", v |-> b]
NumV(s) == [kind |-> "num", v |-> s]
ObjV(f) == [kind |-> "obj", v |-> f]

EmptyObj == ObjV(<<>>)

IsObj(x) == x.kind = "obj"

\* JavaScript property read  x[key]  on a decoded value; "undef" when absent.
Undef == [kind |-> "undef", v |-> <<>>]

Prop(x, key) ==
  IF IsObj(x) /\ key \in DOMAIN x.v THEN x.v[key] ELSE Undef

\* /^\d+(\.\d+)?$/
IsNumberText(s) ==
  /\ s # <<>>
  /\ \A i \in 1..Len(s) : s[i] \in Digits \cup {"."}
  /\ s[1] \in Digits
  /\ s[Len(s)] \in Digits
  /\ Cardinality({i \in 1..Len(s) : s[i] = "."}) <= 1

\* Character class [^>\s/] of the tag-name group
IsNameChar(c) == ~IsWs(c) /\ c # ">" /\ c # "/"

\* Length of the longest run of name characters that starts at index i
RECURSIVE NameRun(_, _)
NameRun(s, i) ==
  IF i > Len(s) \/ ~IsNameChar(s[i]) THEN 0 ELSE 1 + NameRun(s, i + 1)

\* Smallest index >= i holding character c, 0 if none
RECURSIVE IndexOfChar(_, _, _)
IndexOfChar(s, c, i) ==
  IF i > Len(s) THEN 0
  ELSE IF s[i] = c THEN i ELSE IndexOfChar(s, c, i + 1)

\* Smallest index >= i at which substring t starts, 0 if none
RECURSIVE IndexOfSub(_, _, _)
IndexOfSub(s, t, i) ==
  IF i + Len(t) - 1 > Len(s) THEN 0
  ELSE IF HasAt(s, i, t) THEN i ELSE IndexOfSub(s, t, i + 1)

NoMatch == [found |-> FALSE, name |-> <<>>, body |-> <<>>, next |-> 0]

\* One attempt of /<([^>\s/]+)(?:[^>]*)>(.*?)<\/\1>/s anchored at index i,
\* trying tag-name length n first and shorter names on backtracking.
RECURSIVE MatchAt(_, _, _, _)
MatchAt(s, i, gt, n) ==
  IF n = 0 THEN NoMatch
  ELSE LET name == SubSeq(s, i + 1, i + n)
           close == <<"<", "/">> \o name \o <<">">>
           j == IndexOfSub(s, close, gt + 1)
       IN IF j # 0
          THEN [found |-> TRUE, name |-> name,
                body |-> SubSeq(s, gt + 1, j - 1), next |-> j + Len(close)]
          ELSE MatchAt(s, i, gt, n - 1)

\* tagRegex.exec: the leftmost match starting at or after index i
RECURSIVE ExecFrom(_, _)
ExecFrom(s, i) ==
  IF i > Len(s) THEN NoMatch
  ELSE IF s[i] # "<" THEN ExecFrom(s, i + 1)
  ELSE LET gt == IndexOfChar(s, ">", i + 1)
           m == IF gt = 0 THEN NoMatch ELSE MatchAt(s, i, gt, NameRun(s, i + 1))
       IN IF m.found THEN m ELSE ExecFrom(s, i + 1)

\* All matches of the global regex over s, in order
RECURSIVE AllMatches(_, _)
AllMatches(s, i) ==
  LET m == ExecFrom(s, i)
  IN IF m.found THEN <<m>> \o AllMatches(s, m.next) ELSE <<>>

Primitive(t) ==
  IF t = <<"t", "r", "u", "e">> THEN BoolV(TRUE)
  ELSE IF t = <<"f", "a", "l", "s", "e">> THEN BoolV(FALSE)
  ELSE IF IsNumberText(t) THEN NumV(t)
  ELSE StrV(t)

RECURSIVE parseElement(_)
parseElement(content0) ==
  LET content == Trim(content0)
      ms == AllMatches(content, 1)
      names == {ms[k].name : k \in 1..Len(ms)}
      \* a later tag of the same name overwrites the earlier one
      last(nm) == CHOOSE k \in 1..Len(ms) :
                    /\ ms[k].name = nm
                    /\ \A k2 \in 1..Len(ms) : ms[k2].name = nm => k2 <= k
      valueOf(m) == IF Includes(Trim(m.body), "<")
                    THEN parseElement(m.body)
                    ELSE Primitive(Trim(m.body))
  IN IF ~Includes(content, "<") THEN StrV(content)
     ELSE IF ms = <<>> THEN StrV(content)
     ELSE ObjV([nm \in names |-> valueOf(ms[last(nm)])])

xmlToObj(xmlContent) == parseElement(xmlContent)

\* JavaScript truthiness of a decoded value
Truthy(x) ==
  CASE x.kind = "str" -> x.v # <<>>
    [] x.kind = "bool" -> x.v
    [] x.kind = "num" -> \E i \in 1..Len(x.v) : x.v[i] \in Digits \ {"0"}
    [] x.kind = "undef" -> FALSE
    [] OTHER -> TRUE

(***************************************************************************)
(* State                                                                   *)
(***************************************************************************)
VARIABLES
  \* streaming tag demultiplexer (locals of callLLM / callGemini, streaming path)
  fullResponse,    \* text received so far
  tagStack,        \* names of the tags currently open, outermost first
  currentTagName,  \* characters of the tag being read
  wordBuffer,      \* characters of the word being read
  insideTag,       \* between "<" and ">"
  streamed,        \* the Streaming Updates handed to streamingCallback, in order
  streamEnded,     \* the read loop has finished
  deltaCount,      \* number of text deltas received
  \* server-sent-event framing of the streaming path of callLLM
  buffer,          \* text read and not yet split off as a complete line
  received,        \* everything reader.read() has returned so far
  pending,         \* what the vendor has still to send
  parsedLines,     \* the lines handed to parseSseLine, in order
  \* Agent configuration and the arguments of one run
  config,          \* this.config: servers, solanaWallet, llm, outputFormat, inputFormat
  progressCallback,\* run was given a progress callback
  measureRethrows, \* the measure function in use rethrows (TRUE) or returns null (FALSE)
  inputOk,         \* the caller's input satisfies the Input Schema
  \* locals of Agent.run and of the methods it awaits
  pc,              \* position of the run
  input,           \* validatedInput: one value per input field
  fieldIdx,        \* resolveMCPInputFields: index of the field being resolved
  tools,           \* tools returned by the last discoverTools
  tool,            \* tool being parameterised / invoked
  relevantServers, \* servers chosen by selectRelevantServers
  serverIdx,       \* index into relevantServers
  relevantTools,   \* tools chosen by selectRelevantTools
  toolIdx,         \* index into relevantTools
  parameters,      \* result of generateToolParameters
  toolResults,     \* the tool-result bag
  response,        \* text returned by the last callLLM
  hasToolResults,  \* generateResponse put a context block into the prompt
  fwp,             \* the fetchWithPayment (or SDK) call in progress
  outcome,         \* settlement of the promise returned by run
  lastStage,       \* pipeline stage of the latest operation or progress event
  maxStage,        \* latest pipeline stage any operation or event belonged to
  \* one call of a function that keeps no state: the constructor, the codec
  libIn,           \* its argument
  libOut,          \* what it returned or threw; kind "none" before the call
  \* two runs in flight on one Agent, each with its own locals
  runs,            \* run id -> position, locals of callLLM, updates delivered
  interleaved,     \* a run has taken a step while the other was reading its stream
  \* the geeksy package: job executor and job manager, with their tables
  geeksy,          \* JobExecutor: tables, send callback, locals of executeForMessage
  jm               \* JobManager: the jobs table, notifications, the latest call

sseVars == <<buffer, received, pending, parsedLines>>

streamVars == <<fullResponse, tagStack, currentTagName, wordBuffer, insideTag,
                streamed, streamEnded, deltaCount, sseVars>>

argVars == <<config, progressCallback, measureRethrows, inputOk>>

runVars == <<pc, input, fieldIdx, tools, tool, relevantServers, serverIdx,
             relevantTools, toolIdx, parameters, toolResults, response,
             hasToolResults, fwp, outcome, lastStage, maxStage>>

libVars == <<libIn, libOut>>

twoVars == <<runs, interleaved>>

jobVars == <<geeksy, jm>>

vars == <<streamVars, argVars, runVars, libVars, twoVars, jobVars>>

(***************************************************************************)
(* Streaming tag demultiplexer: processChunk                               *)
(***************************************************************************)
DemuxStart ==
  [tagStack |-> <<>>, currentTagName |-> <<>>, wordBuffer |-> <<>>,
   insideTag |-> FALSE, streamed |-> <<>>]

Update(stack, value) == [field |-> JoinWith(stack, <<"_">>), value |-> value]

\* Array.prototype.pop: no effect on an empty array
Pop(stack) == IF stack = <<>> THEN <<>> ELSE SubSeq(stack, 1, Len(stack) - 1)

\* Mutant of onSeparator: the word is flushed but the separator is not sent
onSeparatorDropped(st, char) ==
  [st EXCEPT !.streamed = IF st.wordBuffer # <<>>
                          THEN Append(@, Update(st.tagStack, st.wordBuffer))
                          ELSE @,
             !.wordBuffer = <<>>]

\* A space or newline inside an open tag: the word, then the separator itself
onSeparator(st, char) ==
  [st EXCEPT !.streamed =
               (IF st.wordBuffer # <<>>
                THEN Append(@, Update(st.tagStack, st.wordBuffer))
                ELSE @) \o <<Update(st.tagStack, <<char>>)>>,
             !.wordBuffer = <<>>]

\* The body of  for (const char of chunk)  for one character
charStep(st, char) ==
  IF char = "<" THEN
    [st EXCEPT !.streamed = IF st.wordBuffer # <<>> /\ st.tagStack # <<>>
                            THEN Append(@, Update(st.tagStack, st.wordBuffer))
                            ELSE @,
               !.wordBuffer = <<>>,
               !.insideTag = TRUE,
               !.currentTagName = <<>>]
  ELSE IF char = ">" /\ st.insideTag THEN
    [st EXCEPT !.insideTag = FALSE,
               !.tagStack = IF StartsWith(st.currentTagName, <<"/">>) THEN Pop(@)
                            ELSE IF Trim(st.currentTagName) # <<>>
                                 THEN Append(@, Trim(st.currentTagName))
                                 ELSE @,
               !.currentTagName = <<>>,
               !.wordBuffer = <<>>]
  ELSE IF st.insideTag THEN
    [st EXCEPT !.currentTagName = Append(@, char)]
  ELSE IF st.tagStack # <<>> THEN
    IF char = " " \/ char = "\n" THEN onSeparator(st, char)
    ELSE [st EXCEPT !.wordBuffer = Append(@, char)]
  ELSE st

RECURSIVE processChars(_, _)
processChars(st, chunk) ==
  IF chunk = <<>> THEN st
  ELSE processChars(charStep(st, Head(chunk)), Tail(chunk))

\* Mutant of endFlush: the pending word is not sent
endFlushNever(st) == st

\* Mutant of endFlush: the flush does not look at the word buffer
endFlushUnchecked(st) ==
  IF st.tagStack # <<>>
  THEN [st EXCEPT !.streamed = Append(@, Update(st.tagStack, st.wordBuffer))]
  ELSE st

\* Final flush after the read loop
endFlush(st) ==
  IF st.wordBuffer # <<>> /\ st.tagStack # <<>>
  THEN [st EXCEPT !.streamed = Append(@, Update(st.tagStack, st.wordBuffer))]
  ELSE st

\* Mutant of DemuxState: the word buffer and the tag name being read are
\* locals of processChunk, empty at each call
DemuxStateFresh ==
  [tagStack |-> tagStack, currentTagName |-> <<>>,
   wordBuffer |-> <<>>, insideTag |-> insideTag, streamed |-> streamed]

DemuxState ==
  [tagStack |-> tagStack, currentTagName |-> currentTagName,
   wordBuffer |-> wordBuffer, insideTag |-> insideTag, streamed |-> streamed]

SetDemux(st) ==
  /\ tagStack' = st.tagStack
  /\ currentTagName' = st.currentTagName
  /\ wordBuffer' = st.wordBuffer
  /\ insideTag' = st.insideTag
  /\ streamed' = st.streamed

\* Bounds of the streaming specification
MaxDeltas == 5

\* Text deltas a model stream is cut into: whole tags, pieces of tags, words
\* and separators, so that every short text over the alphabet can arrive.
Deltas ==
  { <<"<", "a", ">">>, <<"<", "/", "a", ">">>, <<"<">>, <<"a", ">">>,
    <<"a">>, <<" ">>, <<"\n">> }

\* No model reply is held
NoReply == [kind |-> "none", text |-> <<>>]

\* No run in progress
NoRun ==
  /\ config = [servers |-> 0, solanaWallet |-> FALSE, llm |-> "gpt-4o",
               lenient |-> FALSE, fields |-> <<>>]
  /\ progressCallback = FALSE
  /\ measureRethrows = TRUE
  /\ inputOk = TRUE
  /\ pc = "off"
  /\ input = <<>>
  /\ fieldIdx = 0
  /\ tools = <<>>
  /\ tool = <<>>
  /\ relevantServers = <<>>
  /\ serverIdx = 0
  /\ relevantTools = <<>>
  /\ toolIdx = 0
  /\ parameters = EmptyObj
  /\ toolResults = [k \in {} |-> k]
  /\ response = NoReply
  /\ hasToolResults = FALSE
  /\ fwp = [state |-> "idle", retries |-> 0, requests |-> 0, payments |-> 0,
            notify |-> FALSE, all402 |-> TRUE, paid |-> "no",
            body |-> "none", error |-> [kind |-> "none", status |-> "none",
                                        text |-> "none"],
            paidBefore |-> FALSE]
  /\ outcome = [status |-> "none", value |-> Undef]
  /\ lastStage = 0
  /\ maxStage = 0

\* No library call under study, no pair of runs in flight
NoLib ==
  /\ libIn = [kind |-> "none"]
  /\ libOut = [kind |-> "none"]
  /\ runs = <<>>
  /\ interleaved = FALSE

\* The geeksy package is not in use
NoJobs ==
  /\ geeksy = [pc |-> "none"]
  /\ jm = [pc |-> "none"]

\* No stream being read
NoStream ==
  /\ fullResponse = <<>>
  /\ tagStack = DemuxStart.tagStack
  /\ currentTagName = DemuxStart.currentTagName
  /\ wordBuffer = DemuxStart.wordBuffer
  /\ insideTag = DemuxStart.insideTag
  /\ streamed = DemuxStart.streamed
  /\ streamEnded = FALSE
  /\ deltaCount = 0
  /\ buffer = <<>>
  /\ received = <<>>
  /\ pending = <<>>
  /\ parsedLines = <<>>

StreamInit == NoRun /\ NoStream /\ NoLib /\ NoJobs

\* One text delta arrives and is handed to processChunk
ProcessChunk(chunk) ==
  /\ ~streamEnded
  /\ fullResponse' = fullResponse \o chunk
  /\ SetDemux(processChars(DemuxState, chunk))
  /\ deltaCount' = deltaCount + 1
  /\ UNCHANGED <<streamEnded, sseVars, argVars, twoVars, libVars, jobVars, runVars>>

\* The stream ends: pending word flushed
StreamEnd ==
  /\ ~streamEnded
  /\ streamEnded' = TRUE
  /\ SetDemux(endFlush(DemuxState))
  /\ UNCHANGED <<fullResponse, deltaCount, sseVars, argVars, twoVars, libVars, jobVars, runVars>>

StreamNext ==
  \/ \E chunk \in Deltas :
       /\ deltaCount < MaxDeltas
       /\ ProcessChunk(chunk)
  \/ StreamEnd

SpecStream == StreamInit /\ [][StreamNext]_vars

(***************************************************************************)
(* Streaming reconstruction                                                *)
(***************************************************************************)
\* Demultiplexer states after 0, 1, 2, ... characters of text: element n+1 is
\* the state after the first n characters
RECURSIVE DemuxStates(_, _)
DemuxStates(st, text) ==
  IF text = <<>> THEN <<st>>
  ELSE <<st>> \o DemuxStates(charStep(st, Head(text)), Tail(text))

\* Positions of the ">" characters that complete a tag
TagEnds(tr) == {g \in 1..Len(fullResponse) :
                  fullResponse[g] = ">" /\ tr[g].insideTag}

\* The ">" at g completes an opening tag (a name is pushed)
OpensAt(tr, g) == Len(tr[g + 1].tagStack) = Len(tr[g].tagStack) + 1

\* The ">" at g completes a closing tag (a name is popped)
ClosesAt(tr, g) == Len(tr[g + 1].tagStack) = Len(tr[g].tagStack) - 1

\* Index of the "<" that begins the tag completed at g
TagStart(tr, g) == g - Len(tr[g].currentTagName) - 1

\* The tag closed at g2 is the one opened at g
Pair(tr, g, g2) ==
  /\ g < g2
  /\ OpensAt(tr, g)
  /\ ClosesAt(tr, g2)
  /\ Len(tr[g2 + 1].tagStack) = Len(tr[g + 1].tagStack) - 1
  /\ \A k \in TagEnds(tr) :
       (g < k /\ k < g2) => Len(tr[k + 1].tagStack) >= Len(tr[g + 1].tagStack)

InnerText(tr, g, g2) == SubSeq(fullResponse, g + 1, TagStart(tr, g2) - 1)

FieldAt(tr, g) == JoinWith(tr[g + 1].tagStack, <<"_">>)

\* Updates emitted while the characters g+1 .. g2 were processed
EmittedBetween(tr, g, g2) ==
  SubSeq(streamed, Len(tr[g + 1].streamed) + 1, Len(tr[g2 + 1].streamed))

RECURSIVE ValuesFor(_, _)
ValuesFor(ups, f) ==
  IF ups = <<>> THEN <<>>
  ELSE (IF Head(ups).field = f THEN Head(ups).value ELSE <<>>)
         \o ValuesFor(Tail(ups), f)

\* C4 as stated: for every tag pair of the stream, the values of the updates
\* emitted for its field, concatenated in order, are the inner text between
\* the two tags.
C4_AsStated ==
  LET tr == DemuxStates(DemuxStart, fullResponse)
      ends == TagEnds(tr)
  IN \A g \in ends : \A g2 \in ends :
       Pair(tr, g, g2) =>
         ValuesFor(EmittedBetween(tr, g, g2), FieldAt(tr, g)) = InnerText(tr, g, g2)

\* C4 (amended): for every tag pair whose inner text holds no further tag,
\* the updates emitted between the two tags all carry the pair's field and
\* their values, concatenated in emission order, are exactly the inner text,
\* spaces and newlines included.
C4_LeafReconstruction ==
  LET tr == DemuxStates(DemuxStart, fullResponse)
      ends == TagEnds(tr)
  IN \A g \in ends : \A g2 \in ends :
       (Pair(tr, g, g2) /\ ~Includes(InnerText(tr, g, g2), "<")) =>
         LET ups == EmittedBetween(tr, g, g2)
             f == FieldAt(tr, g)
         IN /\ ValuesFor(ups, f) = InnerText(tr, g, g2)
            /\ \A k \in 1..Len(ups) : ups[k].field = f

\* A leaf pair holding two words and a separator has been streamed
C4_Witness ==
  LET tr == DemuxStates(DemuxStart, fullResponse)
      ends == TagEnds(tr)
  IN \E g \in ends : \E g2 \in ends :
       /\ Pair(tr, g, g2)
       /\ LET inner == InnerText(tr, g, g2)
          IN /\ ~Includes(inner, "<")
             /\ Len(inner) >= 3
             /\ \E i \in 2..(Len(inner) - 1) : inner[i] \in {" ", "\n"}
       /\ Len(EmittedBetween(tr, g, g2)) >= 3

(***************************************************************************)
(* Names and replies used by the pipeline                                  *)
(***************************************************************************)
Tag(name, body) == <<"<">> \o name \o <<">">> \o body \o <<"<", "/">> \o name \o <<">">>

K_relevant_servers ==
  <<"r", "e", "l", "e", "v", "a", "n", "t", "_", "s", "e", "r", "v", "e", "r", "s">>
K_server_names == <<"s", "e", "r", "v", "e", "r", "_", "n", "a", "m", "e", "s">>
K_selected_tools ==
  <<"s", "e", "l", "e", "c", "t", "e", "d", "_", "t", "o", "o", "l", "s">>
K_tool_names == <<"t", "o", "o", "l", "_", "n", "a", "m", "e", "s">>
K_selected_tool == <<"s", "e", "l", "e", "c", "t", "e", "d", "_", "t", "o", "o", "l">>
K_parameters == <<"p", "a", "r", "a", "m", "e", "t", "e", "r", "s">>
K_answer == <<"a", "n", "s", "w", "e", "r">>
K_item == <<"i", "t", "e", "m">>

\* Bound of the pipeline specification: declared servers and input fields, in total
MaxDeclared == 2

ServerName(i) == <<"s", IF i = 1 THEN "1" ELSE IF i = 2 THEN "2" ELSE "3">>
T1 == <<"t", "1">>
T2 == <<"t", "2">>
Garbage == <<"n", "o", " ", "x", "m", "l">>

\* Tool lists a capability server may return from GET /tools
ToolLists == {<<>>, <<T1, T2>>, <<T1, T1>>}

\* Results a capability server may return from POST /call
ToolResultValues == {"data", "emptyObject", "false"}

\* Results of tool t: t2 answers a yes/no question with data or the JSON value
\* false, every other tool answers with data or the empty object
ToolAnswers(t) == ToolResultValues \ (IF t = T2 THEN {"emptyObject"} ELSE {"false"})

\* A reply whose only tag is never closed
UnclosedServers == <<"<">> \o K_relevant_servers \o <<">">> \o ServerName(1)

\* Model replies, per prompt: empty, not markup, and markup of several shapes
ServerReplies ==
  { <<>>, Garbage,
    Tag(K_relevant_servers, Tag(K_server_names, ServerName(1))),
    Tag(K_relevant_servers, ServerName(1)),
    UnclosedServers }

ToolReplies ==
  { <<>>, Garbage,
    Tag(K_selected_tools, Tag(K_tool_names, T2)),
    Tag(K_selected_tools, Tag(K_tool_names, T1)),
    Tag(K_selected_tools, Tag(K_tool_names, Tag(K_item, T1) \o Tag(K_item, T2))) }

FieldReplies ==
  { <<>>, Garbage, Tag(K_selected_tool, T1), Tag(K_selected_tool, <<"z", "z">>) }

ParamReplies == { <<>>, Garbage, Tag(K_parameters, Tag(<<"q">>, <<"a">>)) }

FinalReplies ==
  { <<>>, Garbage, Tag(K_answer, <<"o", "k">>),
    Tag(<<"r">>, Tag(K_answer, <<"o", "k">>)), Tag(K_answer, <<"4", "2">>) }

(***************************************************************************)
(* Provider transport: callLLM / callGemini as seen by their callers       *)
(***************************************************************************)
Thrown == [kind |-> "throw", text |-> <<>>]
Null == [kind |-> "null", text |-> <<>>]
Text(t) == [kind |-> "text", text |-> t]

\* What a failure inside a measure(...) call becomes for the awaiting code.
\* The measure function is an argument of run (measureFn, default: the one
\* imported at line 3) and its handling of a failing body is not fixed by the
\* code, which is written for both: the null checks after measure calls
\* (lines 155, 237-245) expect null to be returned, the try/catch around a
\* measure call (lines 205-219) expects the error to be rethrown. A run has one
\* of the two, chosen when it starts.
measured(failure) == IF measureRethrows THEN Thrown ELSE failure

\* callLLM, given how the transport ended (ret), the reply text the vendor sent
\* and whether a streaming callback was passed.
callLLM(ret, text, streaming) ==
  IF config.llm = "gemini" THEN
    \* callGemini: the whole body runs inside measureFn
    IF ret = "throw" THEN measured(Null) ELSE Text(text)
  ELSE IF ~streaming THEN
    \* fetchWithPayment, res.json() and the content check run inside measureFn
    IF ret = "throw" \/ text = <<>> THEN measured(Null) ELSE Text(text)
  ELSE
    \* only fetchWithPayment runs inside measureFn; a null response then
    \* fails on response.body
    IF ret = "throw" THEN Thrown ELSE Text(text)

\* !response
Falsy(r) == r.kind = "null" \/ (r.kind = "text" /\ r.text = <<>>)

(***************************************************************************)
(* Tool orchestration: selection and parameter generation                  *)
(***************************************************************************)
AllServers == [i \in 1..config.servers |-> i]

\* this.config.servers.filter(...) on the parsed reply
filterServers(parsed) ==
  LET serverNames == Prop(Prop(parsed, K_relevant_servers), K_server_names)
      \* (… || []): a falsy value becomes the empty array, which includes nothing;
      \* xmlToObj never yields an array, so a truthy value is compared with ===
      keep(i) == Truthy(serverNames) /\ serverNames.kind = "str"
                   /\ serverNames.v = ServerName(i)
  IN SelectSeq(AllServers, keep)

\* selectRelevantServers, given the result r of its callLLM
selectRelevantServers(r) ==
  IF Falsy(r) THEN AllServers ELSE filterServers(xmlToObj(r.text))

filterTools(parsed, ts) ==
  LET toolNames == Prop(Prop(parsed, K_selected_tools), K_tool_names)
      keep(t) == Truthy(toolNames) /\ toolNames.kind = "str" /\ toolNames.v = t
  IN SelectSeq(ts, keep)

\* selectRelevantTools, given the result r of its callLLM
selectRelevantTools(r, ts) ==
  IF Falsy(r) THEN SubSeq(ts, 1, 1) ELSE filterTools(xmlToObj(r.text), ts)

\* Mutant of generateToolParameters: no fallback when the reply holds no
\* parameters
generateToolParametersNoFallback(r) ==
  IF Falsy(r) THEN EmptyObj ELSE Prop(xmlToObj(r.text), K_parameters)

\* generateToolParameters, given the result r of its callLLM (r is not Thrown)
generateToolParameters(r) ==
  IF Falsy(r) THEN EmptyObj
  ELSE LET p == Prop(xmlToObj(r.text), K_parameters)
       IN IF Truthy(p) THEN p ELSE EmptyObj

\* resolveMCPInputFields: the tool picked for a field, <<>> when the field is skipped
pickedTool(r, ts) ==
  IF Falsy(r) THEN <<>>
  ELSE LET sel == Prop(xmlToObj(r.text), K_selected_tool)
       IN IF Truthy(sel) /\ sel.kind = "str" /\ \E k \in 1..Len(ts) : ts[k] = sel.v
          THEN sel.v ELSE <<>>

(***************************************************************************)
(* Response generation and output validation                               *)
(***************************************************************************)
\* hasToolResults of generateResponse
hasResults(bag) ==
  /\ DOMAIN bag # {}
  /\ \E k \in DOMAIN bag : bag[k] \notin {"null", "emptyObject", "emptyString"}

\* response.match(/<answer>([\s\S]*?)<\/answer>/)
rawField(text, key) ==
  LET open == <<"<">> \o key \o <<">">>
      close == <<"<", "/">> \o key \o <<">">>
      i == IndexOfSub(text, open, 1)
      j == IF i = 0 THEN 0 ELSE IndexOfSub(text, close, i + Len(open))
  IN IF j = 0 THEN Undef ELSE StrV(SubSeq(text, i + Len(open), j - 1))

\* Object.keys(parsed) of a decoded object
rootKeys(parsed) == IF IsObj(parsed) THEN DOMAIN parsed.v ELSE {}

\* The object the fields are read from: the single root element if there is
\* exactly one and it is an object, else the parsed reply itself
sourceObject(parsed) ==
  IF Cardinality(rootKeys(parsed)) = 1
       /\ IsObj(parsed.v[CHOOSE k \in rootKeys(parsed) : TRUE])
  THEN parsed.v[CHOOSE k \in rootKeys(parsed) : TRUE]
  ELSE parsed

\* The loop body for the one field of the schema { answer: string }
fieldResult(value, raw) ==
  IF value = Undef THEN EmptyObj
  ELSE IF IsObj(value) /\ raw # Undef THEN ObjV((K_answer :> raw))
  ELSE ObjV((K_answer :> value))

\* The field extraction of generateResponse, given the parsed reply
extractFrom(parsed, text) ==
  IF ~Truthy(parsed) THEN EmptyObj
  ELSE fieldResult(Prop(sourceObject(parsed), K_answer), rawField(text, K_answer))

extractFields(text) == extractFrom(xmlToObj(text), text)

\* generateResponse, given the result r of its callLLM
generateResponse(r) ==
  IF r.kind = "throw" THEN measured([kind |-> "value", v |-> EmptyObj])
  ELSE IF Falsy(r) THEN [kind |-> "value", v |-> EmptyObj]
  ELSE [kind |-> "value", v |-> extractFields(r.text)]

\* this.config.outputFormat.parse(x) succeeds
outputValid(x) ==
  IF K_answer \in DOMAIN x.v THEN x.v[K_answer].kind = "str" ELSE config.lenient

\* null, as a final value of run
NullV == [kind |-> "null", v |-> <<>>]

Rejected == [status |-> "rejected", value |-> Undef]
Resolved(v) == [status |-> "resolved", value |-> v]

\* What an exception that reaches the body of run's outermost measure becomes
runThrows == IF measureRethrows THEN Rejected ELSE Resolved(NullV)

\* Lines 232-245 of run, given the result g of generateResponse
validateOutput(g) ==
  IF g.kind = "throw" THEN runThrows
  ELSE IF outputValid(g.v) THEN Resolved(g.v)
  ELSE IF measureRethrows THEN Rejected
  ELSE Resolved(EmptyObj)

(***************************************************************************)
(* Payment-retry transport: fetchWithPayment                               *)
(***************************************************************************)
\* Mutant of maxRetries: one more paid retry is allowed
maxRetriesMore == 1 + 1

maxRetries == 1

\* No failure has been raised by the call
NoError == [kind |-> "none", status |-> "none", text |-> "none"]

\* new Error(`Request failed: ${res.status} - ${errorText}`)
RequestFailed(status, errorText) ==
  [kind |-> "RequestFailed", status |-> status, text |-> errorText]

\* Any other failure leaving the call: a rejected fetch, res.json() of an
\* undecodable body, a bad key or recipient, a rejected transaction
OtherError == [kind |-> "other", status |-> "none", text |-> "none"]

\* Mutant of canPay: the wallet is not looked at
canPayNoWallet(res) == res = "402" /\ fwp.retries < maxRetries

\* Negation of the condition of line 272: the response asks for a payment that
\* this call may still make
canPay(res) == res = "402" /\ fwp.retries < maxRetries /\ config.solanaWallet

\* History of the calls made for one server or one input field: one of them,
\* the current one included, has paid and gone round the loop again (retries++
\* at line 316)
PaidSoFar == fwp.paidBefore \/ fwp.retries >= 1

\* Mutant of FwpCall: the retries used so far in the run are carried over
FwpCallSharedBudget(notify) ==
  [state |-> "send", retries |-> IF PaidSoFar THEN 1 ELSE 0, requests |-> 0,
   payments |-> 0, notify |-> notify /\ progressCallback, all402 |-> TRUE,
   paid |-> "no", body |-> "none", error |-> NoError, paidBefore |-> PaidSoFar]

\* A fetchWithPayment call begins; notify: a progress callback was passed to it
FwpCall(notify) ==
  [state |-> "send", retries |-> 0, requests |-> 0, payments |-> 0,
   notify |-> notify /\ progressCallback, all402 |-> TRUE, paid |-> "no",
   body |-> "none", error |-> NoError, paidBefore |-> PaidSoFar]

\* A Gemini SDK call begins: no HTTP status is ever seen by the caller
SdkCall ==
  [state |-> "sdk", retries |-> 0, requests |-> 0, payments |-> 0,
   notify |-> FALSE, all402 |-> FALSE, paid |-> "no",
   body |-> "none", error |-> NoError, paidBefore |-> PaidSoFar]

StartLLM(notify) == IF config.llm = "gemini" THEN SdkCall ELSE FwpCall(notify)

\* Mutant of Returned: the caller goes on without awaiting the call
ReturnedNotAwaited == fwp.state # "idle"

\* The call awaited by the run has returned a response or thrown
Returned == fwp.state \in {"ok", "throw"}

Max(a, b) == IF a >= b THEN a ELSE b

\* Pipeline stage a position of the run belongs to
StageOf(p) ==
  CASE p = "validate_input" -> 1
    [] p \in {"resolve_mcp_fields", "resolve_discover", "resolve_select",
              "resolve_params", "resolve_invoke"} -> 2
    [] p \in {"select_servers", "select_servers_llm"} -> 3
    [] p \in {"tools", "tools_server", "tools_discover", "tools_select",
              "tool_next", "tool_params", "tool_invoke"} -> 4
    [] p \in {"generate_response", "generate_llm"} -> 5
    [] OTHER -> 7

\* A network operation of stage st is issued
NetOp(st) ==
  /\ lastStage' = st
  /\ maxStage' = Max(maxStage, st)

Quiet == UNCHANGED <<lastStage, maxStage>>

\* progressCallback?.({stage, ...}) in stage st; sent: the call is reached
Progress(st, sent) == IF progressCallback /\ sent THEN NetOp(st) ELSE Quiet

\* await fetch(url, options), and the handling of its response up to the next await
FwpSend ==
  /\ fwp.state = "send"
  /\ \E res \in {"ok", "402", "other"} : \E body \in {"good", "bad"} :
       LET f == [fwp EXCEPT !.requests = @ + 1,
                            !.all402 = @ /\ res = "402",
                            !.body = body]
       IN /\ (res = "ok" => body = "good")
          /\ IF res = "ok" THEN
               /\ fwp' = [f EXCEPT !.state = "ok"]
               /\ NetOp(StageOf(pc))
             ELSE IF ~canPay(res) THEN
               \* not ok: thrown with the status and the body text
               /\ fwp' = [f EXCEPT !.state = "throw",
                                   !.error = RequestFailed(res, body)]
               /\ NetOp(StageOf(pc))
             ELSE IF body = "bad" THEN
               \* the 402 body, the key or the recipient cannot be decoded
               /\ fwp' = [f EXCEPT !.state = "throw", !.error = OtherError]
               /\ NetOp(StageOf(pc))
             ELSE
               /\ fwp' = [f EXCEPT !.state = "sendTransaction"]
               /\ NetOp(StageOf(pc))
  /\ UNCHANGED <<pc, input, fieldIdx, tools, tool, relevantServers, serverIdx,
                 relevantTools, toolIdx, parameters, toolResults, response,
                 hasToolResults, outcome>>
  /\ UNCHANGED <<streamVars, argVars, twoVars, libVars, jobVars>>

\* await connection.sendTransaction(...)
FwpSendTransaction ==
  /\ fwp.state = "sendTransaction"
  /\ \E ok \in BOOLEAN :
       fwp' = [fwp EXCEPT !.payments = @ + 1,
                          !.paid = IF ok THEN "sent" ELSE "failed",
                          !.state = IF ok \/ ~measureRethrows
                                    THEN "confirmTransaction" ELSE "throw",
                          !.error = IF ok \/ ~measureRethrows
                                    THEN NoError ELSE OtherError]
  /\ NetOp(StageOf(pc))
  /\ UNCHANGED <<pc, input, fieldIdx, tools, tool, relevantServers, serverIdx,
                 relevantTools, toolIdx, parameters, toolResults, response,
                 hasToolResults, outcome>>
  /\ UNCHANGED <<streamVars, argVars, twoVars, libVars, jobVars>>

\* await connection.confirmTransaction(signature), then retries++
FwpConfirmTransaction ==
  /\ fwp.state = "confirmTransaction"
  /\ \E ok \in BOOLEAN :
       \* a null signature (submission failed under a null-returning measure)
       \* is never confirmed
       /\ (fwp.paid = "failed" => ~ok)
       /\ IF ok \/ ~measureRethrows
          THEN /\ fwp' = [fwp EXCEPT !.paid = IF ok THEN "confirmed" ELSE "failed",
                                     !.retries = @ + 1,
                                     !.state = "send"]
               /\ NetOp(StageOf(pc))
          ELSE /\ fwp' = [fwp EXCEPT !.paid = "failed", !.state = "throw",
                                     !.error = OtherError]
               /\ NetOp(StageOf(pc))
  /\ UNCHANGED <<pc, input, fieldIdx, tools, tool, relevantServers, serverIdx,
                 relevantTools, toolIdx, parameters, toolResults, response,
                 hasToolResults, outcome>>
  /\ UNCHANGED <<streamVars, argVars, twoVars, libVars, jobVars>>

\* await genAI.models.generateContent / generateContentStream
GeminiCall ==
  /\ fwp.state = "sdk"
  /\ \E ok \in BOOLEAN :
       fwp' = [fwp EXCEPT !.state = IF ok THEN "ok" ELSE "throw",
                          !.error = IF ok THEN NoError ELSE OtherError,
                          !.requests = @ + 1]
  /\ NetOp(StageOf(pc))
  /\ UNCHANGED <<pc, input, fieldIdx, tools, tool, relevantServers, serverIdx,
                 relevantTools, toolIdx, parameters, toolResults, response,
                 hasToolResults, outcome>>
  /\ UNCHANGED <<streamVars, argVars, twoVars, libVars, jobVars>>

(***************************************************************************)
(* Agent.run                                                               *)
(***************************************************************************)
FwpIdle ==
  [state |-> "idle", retries |-> 0, requests |-> 0, payments |-> 0,
   notify |-> FALSE, all402 |-> TRUE, paid |-> "no",
   body |-> "none", error |-> NoError, paidBefore |-> FALSE]

\* Between two calls made for the same server
FwpRest == [FwpIdle EXCEPT !.paidBefore = PaidSoFar]

FieldKinds == {"plain", "mcpNoUrl", "mcp"}

FieldLists == UNION {[1..n -> FieldKinds] : n \in 0..MaxDeclared}

Vendors == {"gpt-4o", "gemini"}

RunInit ==
  /\ NoStream
  /\ NoLib
  /\ NoJobs
  /\ config \in [servers : 0..MaxDeclared, solanaWallet : BOOLEAN, llm : Vendors,
                 lenient : BOOLEAN, fields : FieldLists]
  /\ config.servers + Len(config.fields) <= MaxDeclared
  /\ progressCallback \in BOOLEAN
  /\ measureRethrows \in BOOLEAN
  /\ inputOk \in BOOLEAN
  /\ pc = "validate_input"
  /\ input = [i \in 1..Len(config.fields) |-> "original"]
  /\ fieldIdx = 0
  /\ tools = <<>>
  /\ tool = <<>>
  /\ relevantServers = <<>>
  /\ serverIdx = 0
  /\ relevantTools = <<>>
  /\ toolIdx = 0
  /\ parameters = EmptyObj
  /\ toolResults = [k \in {} |-> k]
  /\ response = NoReply
  /\ hasToolResults = FALSE
  /\ fwp = FwpIdle
  /\ outcome = [status |-> "running", value |-> Undef]
  /\ lastStage = 0
  /\ maxStage = 0

\* The promise returned by run settles
Finish(o) ==
  /\ pc' = "done"
  /\ outcome' = o
  /\ fwp' = FwpIdle

\* Lines 151-163: input validation, then the first progress event
ValidateInput ==
  /\ pc = "validate_input"
  /\ IF inputOk
     THEN /\ pc' = "resolve_mcp_fields"
          /\ fieldIdx' = 1
          /\ Progress(2, TRUE)
          /\ UNCHANGED <<outcome, fwp>>
     ELSE /\ Finish(runThrows)
          /\ Quiet
          /\ UNCHANGED fieldIdx
  /\ UNCHANGED <<input, tools, tool, relevantServers, serverIdx, relevantTools,
                 toolIdx, parameters, toolResults, response, hasToolResults>>
  /\ UNCHANGED <<streamVars, argVars, twoVars, libVars, jobVars>>

\* An exception leaves resolveMCPInputFields: run's measure rethrows it or
\* returns null, and then run goes on to server selection
ResolveAbort ==
  IF measureRethrows
  THEN Finish(Rejected)
  ELSE /\ pc' = "select_servers"
       /\ fwp' = FwpIdle
       /\ UNCHANGED outcome

NextField ==
  /\ pc' = "resolve_mcp_fields"
  /\ fieldIdx' = fieldIdx + 1
  /\ fwp' = FwpIdle
  /\ UNCHANGED outcome

\* resolveMCPInputFields: head of the loop over the input fields
ResolveField ==
  /\ pc = "resolve_mcp_fields"
  /\ IF fieldIdx > Len(config.fields)
     THEN /\ pc' = "select_servers"
          /\ Quiet
          /\ UNCHANGED <<fieldIdx, fwp>>
     ELSE IF config.fields[fieldIdx] # "mcp"
     THEN /\ fieldIdx' = fieldIdx + 1
          /\ Quiet
          /\ UNCHANGED <<pc, fwp>>
     ELSE /\ pc' = "resolve_discover"
          /\ fwp' = FwpCall(FALSE)
          /\ Progress(2, TRUE)
          /\ UNCHANGED fieldIdx
  \* tools, selected tool, parameters and reply are locals of one iteration
  /\ tools' = <<>>
  /\ tool' = <<>>
  /\ parameters' = EmptyObj
  /\ response' = NoReply
  /\ UNCHANGED <<input, relevantServers, serverIdx, relevantTools,
                 toolIdx, toolResults, hasToolResults, outcome>>
  /\ UNCHANGED <<streamVars, argVars, twoVars, libVars, jobVars>>

\* resolveMCPInputFields after discoverTools
ResolveDiscovered ==
  /\ pc = "resolve_discover"
  /\ Returned
  /\ IF fwp.state = "throw"
     THEN ResolveAbort /\ UNCHANGED <<tools, fieldIdx>>
     ELSE \E ts \in ToolLists :
            /\ tools' = ts
            /\ IF ts = <<>>
               THEN NextField
               ELSE /\ pc' = "resolve_select"
                    /\ fwp' = StartLLM(TRUE)
                    /\ UNCHANGED <<fieldIdx, outcome>>
  /\ Quiet
  /\ UNCHANGED <<input, tool, relevantServers, serverIdx, relevantTools,
                 toolIdx, parameters, toolResults, response, hasToolResults>>
  /\ UNCHANGED <<streamVars, argVars, twoVars, libVars, jobVars>>

\* resolveMCPInputFields after the tool-picking callLLM
ResolveSelected ==
  /\ pc = "resolve_select"
  /\ Returned
  /\ \E reply \in FieldReplies :
       LET r == callLLM(fwp.state, reply, FALSE)
           t == pickedTool(r, tools)
       IN /\ (fwp.state = "throw" => reply = <<>>)
          /\ response' = r
          /\ IF r.kind = "throw" THEN ResolveAbort /\ UNCHANGED <<tool, fieldIdx>>
             ELSE IF t = <<>> THEN NextField /\ UNCHANGED tool
             ELSE /\ tool' = t
                  /\ pc' = "resolve_params"
                  /\ fwp' = StartLLM(FALSE)
                  /\ UNCHANGED <<fieldIdx, outcome>>
  /\ Quiet
  /\ UNCHANGED <<input, tools, relevantServers, serverIdx, relevantTools,
                 toolIdx, parameters, toolResults, hasToolResults>>
  /\ UNCHANGED <<streamVars, argVars, twoVars, libVars, jobVars>>

\* resolveMCPInputFields after generateToolParameters
ResolveParams ==
  /\ pc = "resolve_params"
  /\ Returned
  /\ \E reply \in ParamReplies :
       LET r == callLLM(fwp.state, reply, FALSE)
       IN /\ (fwp.state = "throw" => reply = <<>>)
          /\ response' = r
          /\ IF r.kind = "throw" THEN ResolveAbort /\ UNCHANGED <<parameters, fieldIdx>>
             ELSE /\ parameters' = generateToolParameters(r)
                  /\ pc' = "resolve_invoke"
                  /\ fwp' = FwpCall(FALSE)
                  /\ UNCHANGED <<fieldIdx, outcome>>
  /\ Quiet
  /\ UNCHANGED <<input, tools, tool, relevantServers, serverIdx, relevantTools,
                 toolIdx, toolResults, hasToolResults>>
  /\ UNCHANGED <<streamVars, argVars, twoVars, libVars, jobVars>>

\* resolveMCPInputFields after invokeTool: input[key] = result
ResolveInvoked ==
  /\ pc = "resolve_invoke"
  /\ Returned
  /\ IF fwp.state = "throw" /\ measureRethrows
     THEN /\ ResolveAbort
          /\ Quiet
          /\ UNCHANGED <<input, fieldIdx>>
     ELSE /\ input' = [input EXCEPT ![fieldIdx] =
                           IF fwp.state = "throw" THEN "null" ELSE "data"]
          /\ NextField
          /\ Progress(2, TRUE)
  /\ UNCHANGED <<tools, tool, relevantServers, serverIdx, relevantTools,
                 toolIdx, parameters, toolResults, response, hasToolResults>>
  /\ UNCHANGED <<streamVars, argVars, twoVars, libVars, jobVars>>

\* Lines 169-178: server selection begins
SelectServers ==
  /\ pc = "select_servers"
  /\ IF config.servers = 0
     THEN /\ pc' = "tools"
          /\ Quiet
          /\ UNCHANGED fwp
     ELSE /\ pc' = "select_servers_llm"
          /\ fwp' = StartLLM(FALSE)
          /\ Progress(3, TRUE)
  \* the locals of resolveMCPInputFields are gone
  /\ fieldIdx' = 0
  /\ tools' = <<>>
  /\ tool' = <<>>
  /\ parameters' = EmptyObj
  /\ response' = NoReply
  /\ UNCHANGED <<input, relevantServers, serverIdx, relevantTools, toolIdx,
                 toolResults, hasToolResults, outcome>>
  /\ UNCHANGED <<streamVars, argVars, twoVars, libVars, jobVars>>

\* selectRelevantServers after its callLLM, then lines 179-183
ServersSelected ==
  /\ pc = "select_servers_llm"
  /\ Returned
  /\ \E reply \in ServerReplies :
       LET r == callLLM(fwp.state, reply, FALSE)
       IN /\ (fwp.state = "throw" => reply = <<>>)
          /\ response' = r
          /\ IF r.kind = "throw"
             THEN /\ Finish(Rejected)
                  /\ Quiet
                  /\ UNCHANGED relevantServers
             ELSE /\ relevantServers' = selectRelevantServers(r)
                  /\ pc' = "tools"
                  /\ fwp' = FwpIdle
                  /\ Progress(3, TRUE)
                  /\ UNCHANGED outcome
  /\ UNCHANGED <<input, fieldIdx, tools, tool, serverIdx, relevantTools,
                 toolIdx, parameters, toolResults, hasToolResults>>
  /\ UNCHANGED <<streamVars, argVars, twoVars, libVars, jobVars>>

\* Mutant of ToolStageAbort: a failed tool stage goes back to server selection
ToolStageAbortReselect ==
  IF measureRethrows
  THEN Finish(Rejected)
  ELSE /\ pc' = "select_servers"
       /\ fwp' = FwpIdle
       /\ UNCHANGED outcome

\* An exception leaves the body of measure(..., "Discover and invoke tools"):
\* it is rethrown, or null is returned and run goes on to response generation
ToolStageAbort ==
  IF measureRethrows
  THEN Finish(Rejected)
  ELSE /\ pc' = "generate_response"
       /\ fwp' = FwpIdle
       /\ UNCHANGED outcome

NextServer ==
  /\ pc' = "tools_server"
  /\ serverIdx' = serverIdx + 1
  /\ fwp' = FwpIdle
  /\ UNCHANGED outcome

NextTool ==
  /\ pc' = "tool_next"
  /\ toolIdx' = toolIdx + 1
  /\ fwp' = FwpRest
  /\ UNCHANGED outcome

\* Lines 185-190: the tool stage begins if a server was selected
DiscoverStart ==
  /\ pc = "tools"
  /\ IF relevantServers = <<>>
     THEN /\ pc' = "generate_response"
          /\ Quiet
          /\ UNCHANGED serverIdx
     ELSE /\ pc' = "tools_server"
          /\ serverIdx' = 1
          /\ Progress(4, TRUE)
  /\ response' = NoReply
  /\ UNCHANGED <<input, fieldIdx, tools, tool, relevantServers, relevantTools,
                 toolIdx, parameters, toolResults, hasToolResults,
                 fwp, outcome>>
  /\ UNCHANGED <<streamVars, argVars, twoVars, libVars, jobVars>>

\* Line 193: head of the loop over the selected servers
ToolsServer ==
  /\ pc = "tools_server"
  /\ IF serverIdx > Len(relevantServers)
     THEN /\ pc' = "generate_response"
          /\ UNCHANGED fwp
     ELSE /\ pc' = "tools_discover"
          /\ fwp' = FwpCall(FALSE)
  /\ Quiet
  \* tools, relevantTools and the tool loop's locals belong to one iteration
  /\ tools' = <<>>
  /\ relevantTools' = <<>>
  /\ toolIdx' = 0
  /\ tool' = <<>>
  /\ parameters' = EmptyObj
  /\ response' = NoReply
  /\ UNCHANGED <<input, fieldIdx, relevantServers, serverIdx, toolResults,
                 hasToolResults, outcome>>
  /\ UNCHANGED <<streamVars, argVars, twoVars, libVars, jobVars>>

\* Lines 194-199 after discoverTools
ToolsDiscovered ==
  /\ pc = "tools_discover"
  /\ Returned
  /\ IF fwp.state = "throw"
     THEN ToolStageAbort /\ UNCHANGED <<tools, serverIdx>>
     ELSE \E ts \in ToolLists :
            /\ tools' = ts
            /\ IF ts = <<>>
               THEN NextServer
               ELSE /\ pc' = "tools_select"
                    /\ fwp' = StartLLM(FALSE)
                    /\ UNCHANGED <<serverIdx, outcome>>
  /\ Quiet
  /\ UNCHANGED <<input, fieldIdx, tool, relevantServers, relevantTools,
                 toolIdx, parameters, toolResults, response, hasToolResults>>
  /\ UNCHANGED <<streamVars, argVars, twoVars, libVars, jobVars>>

\* selectRelevantTools after its callLLM
ToolsSelected ==
  /\ pc = "tools_select"
  /\ Returned
  /\ \E reply \in ToolReplies :
       LET r == callLLM(fwp.state, reply, FALSE)
       IN /\ (fwp.state = "throw" => reply = <<>>)
          /\ response' = r
          /\ IF r.kind = "throw"
             THEN ToolStageAbort /\ UNCHANGED <<relevantTools, toolIdx>>
             ELSE /\ relevantTools' = selectRelevantTools(r, tools)
                  /\ toolIdx' = 1
                  /\ pc' = "tool_next"
                  /\ fwp' = FwpRest
                  /\ UNCHANGED outcome
  /\ Quiet
  /\ UNCHANGED <<input, fieldIdx, tools, tool, relevantServers, serverIdx,
                 parameters, toolResults, hasToolResults>>
  /\ UNCHANGED <<streamVars, argVars, twoVars, libVars, jobVars>>

\* Lines 200-211: head of the loop over the selected tools
ToolNext ==
  /\ pc = "tool_next"
  /\ IF toolIdx > Len(relevantTools)
     THEN /\ NextServer
          /\ Quiet
          /\ tool' = <<>>
          /\ UNCHANGED toolIdx
     ELSE /\ tool' = relevantTools[toolIdx]
          /\ pc' = "tool_params"
          /\ fwp' = StartLLM(FALSE)
          /\ Progress(4, TRUE)
          /\ UNCHANGED <<serverIdx, toolIdx, outcome>>
  /\ parameters' = EmptyObj
  /\ response' = NoReply
  /\ UNCHANGED <<input, fieldIdx, tools, relevantServers, relevantTools,
                 toolResults, hasToolResults>>
  /\ UNCHANGED <<streamVars, argVars, twoVars, libVars, jobVars>>

\* Lines 208-212 after generateToolParameters; a failure is caught at line 217
ToolParams ==
  /\ pc = "tool_params"
  /\ Returned
  /\ \E reply \in ParamReplies :
       LET r == callLLM(fwp.state, reply, FALSE)
       IN /\ (fwp.state = "throw" => reply = <<>>)
          /\ response' = r
          /\ IF r.kind = "throw"
             THEN NextTool /\ UNCHANGED parameters
             ELSE /\ parameters' = generateToolParameters(r)
                  /\ pc' = "tool_invoke"
                  /\ fwp' = FwpCall(FALSE)
                  /\ UNCHANGED <<toolIdx, outcome>>
  /\ Quiet
  /\ UNCHANGED <<input, fieldIdx, tools, tool, relevantServers, serverIdx,
                 relevantTools, toolResults, hasToolResults>>
  /\ UNCHANGED <<streamVars, argVars, twoVars, libVars, jobVars>>

ResultKey == [server |-> relevantServers[serverIdx], tool |-> tool]

\* Lines 212-219 after invokeTool: the result is stored; a failure is caught at
\* line 217 or, under a null-returning measure, arrives as a null result
storeResult(ret, res) ==
  IF ret = "throw" /\ measureRethrows
  THEN /\ NextTool
       /\ UNCHANGED toolResults
  ELSE /\ toolResults' = (ResultKey :> (IF ret = "throw" THEN "null" ELSE res))
                           @@ toolResults
       /\ NextTool

ToolInvoked ==
  /\ pc = "tool_invoke"
  /\ Returned
  /\ \E res \in ToolAnswers(tool) : storeResult(fwp.state, res)
  /\ Quiet
  /\ UNCHANGED <<input, fieldIdx, tools, tool, relevantServers, serverIdx,
                 relevantTools, parameters, response, hasToolResults>>
  /\ UNCHANGED <<streamVars, argVars, twoVars, libVars, jobVars>>

\* Lines 227-233 and generateResponse up to its callLLM
GenerateStart ==
  /\ pc = "generate_response"
  /\ pc' = "generate_llm"
  /\ hasToolResults' = hasResults(toolResults)
  /\ fwp' = StartLLM(TRUE)
  /\ Progress(5, TRUE)
  \* the locals of the tool stage are gone
  /\ serverIdx' = 0
  /\ toolIdx' = 0
  /\ tools' = <<>>
  /\ relevantTools' = <<>>
  /\ tool' = <<>>
  /\ parameters' = EmptyObj
  /\ response' = NoReply
  /\ UNCHANGED <<input, fieldIdx, relevantServers, toolResults, outcome>>
  /\ UNCHANGED <<streamVars, argVars, twoVars, libVars, jobVars>>

\* Streaming Updates the reply text gives rise to
streamingUpdates(r) ==
  IF progressCallback /\ r.kind = "text"
  THEN Len(endFlush(processChars(DemuxStart, r.text)).streamed)
  ELSE 0

\* Rest of generateResponse, output validation and return
Generated ==
  /\ pc = "generate_llm"
  /\ Returned
  /\ \E reply \in FinalReplies :
       LET r == callLLM(fwp.state, reply, progressCallback)
       IN /\ (fwp.state = "throw" => reply = <<>>)
          /\ response' = r
          /\ Finish(validateOutput(generateResponse(r)))
          /\ Progress(5, streamingUpdates(r) > 0)
  /\ UNCHANGED <<input, fieldIdx, tools, tool, relevantServers, serverIdx,
                 relevantTools, toolIdx, parameters, toolResults, hasToolResults>>
  /\ UNCHANGED <<streamVars, argVars, twoVars, libVars, jobVars>>

Next ==
  \/ ValidateInput
  \/ ResolveField
  \/ ResolveDiscovered
  \/ ResolveSelected
  \/ ResolveParams
  \/ ResolveInvoked
  \/ SelectServers
  \/ ServersSelected
  \/ DiscoverStart
  \/ ToolsServer
  \/ ToolsDiscovered
  \/ ToolsSelected
  \/ ToolNext
  \/ ToolParams
  \/ ToolInvoked
  \/ GenerateStart
  \/ Generated
  \/ FwpSend
  \/ FwpSendTransaction
  \/ FwpConfirmTransaction
  \/ GeminiCall

Spec == RunInit /\ [][Next]_vars

(***************************************************************************)
(* Server-sent-event framing: parseSseLine and the read loop of callLLM    *)
(***************************************************************************)
\* The text of a stream is a sequence of pieces: a newline, the prefix
\* "data: ", the sentinel text "[DONE]", the opening and the closing of the
\* JSON object that carries a text delta ("{" stands for
\* {"choices":[{"delta":{"content":" and "}" for "}}]} ), the JSON escape of a
\* newline, and single characters.
SseData == "data: "

\* Mutant of parseSseLine: a payload that does not parse is passed on as text
parseSseLineLeaky(line) ==
  IF ~StartsWith(line, <<SseData>>) \/ Includes(line, "[DONE]") THEN <<>>
  ELSE LET json == SubSeq(line, 2, Len(line))
           inner == SubSeq(json, 2, Len(json) - 1)
           valid == /\ Len(json) >= 2
                    /\ json[1] = "{"
                    /\ json[Len(json)] = "}"
                    /\ \A i \in 1..Len(inner) : inner[i] \notin {"{", "}", SseData}
       IN IF valid
          THEN [i \in 1..Len(inner) |-> IF inner[i] = "\\n" THEN "\n" ELSE inner[i]]
          ELSE json

\* parseSseLine for an OpenAI-compatible vendor: the text delta of a line
parseSseLine(line) ==
  IF ~StartsWith(line, <<SseData>>) \/ Includes(line, "[DONE]") THEN <<>>
  ELSE LET json == SubSeq(line, 2, Len(line))
           inner == SubSeq(json, 2, Len(json) - 1)
           \* JSON.parse succeeds
           valid == /\ Len(json) >= 2
                    /\ json[1] = "{"
                    /\ json[Len(json)] = "}"
                    /\ \A i \in 1..Len(inner) : inner[i] \notin {"{", "}", SseData}
       IN IF valid
          THEN [i \in 1..Len(inner) |-> IF inner[i] = "\\n" THEN "\n" ELSE inner[i]]
          ELSE <<>>

\* Mutant of readLines: the incomplete line is not kept
RECURSIVE readLinesDropPartial(_, _)
readLinesDropPartial(st, text) ==
  IF ~Includes(text, "\n") THEN [st EXCEPT !.buffer = <<>>]
  ELSE LET nl == IndexOfChar(text, "\n", 1)
           line == SubSeq(text, 1, nl - 1)
           content == parseSseLine(line)
           seen == [st EXCEPT !.parsedLines = Append(@, line)]
       IN readLinesDropPartial(IF content # <<>>
                               THEN [processChars(seen, content)
                                       EXCEPT !.fullResponse = @ \o content]
                               ELSE seen,
                               SubSeq(text, nl + 1, Len(text)))

RECURSIVE readLines(_, _)

\* Lines 527-536 for the text  buffer + decoder.decode(value): every complete
\* line is parsed and its text delta, if any, handed to processChunk; what
\* follows the last newline stays in buffer
readLines(st, text) ==
  IF ~Includes(text, "\n") THEN [st EXCEPT !.buffer = text]
  ELSE LET nl == IndexOfChar(text, "\n", 1)
           line == SubSeq(text, 1, nl - 1)
           content == parseSseLine(line)
           seen == [st EXCEPT !.parsedLines = Append(@, line)]
       IN readLines(IF content # <<>>
                    THEN [processChars(seen, content)
                            EXCEPT !.fullResponse = @ \o content]
                    ELSE seen,
                    SubSeq(text, nl + 1, Len(text)))

\* Bound of the framing specification: lines the vendor sends
MaxLines == 2

\* Lines a vendor sends: text deltas, a delta with an escaped newline, the
\* sentinel, a delta whose text is "[DONE]", a truncated JSON payload, the
\* empty line between events, a line without the data prefix
SseLines ==
  { <<SseData, "{", "<", "a", ">", "b", "}">>,
    <<SseData, "{", "\\n", "c", "}">>,
    <<SseData, "[DONE]">>,
    <<SseData, "{", "[DONE]", "}">>,
    <<SseData, "{", "x">>,
    <<>>,
    <<"event: ", "x">> }

\* The streams: up to MaxLines lines, the last one with or without its newline
SseStreams ==
  { JoinWith(ls, <<"\n">>) \o (IF term /\ ls # <<>> THEN <<"\n">> ELSE <<>>) :
      ls \in UNION {[1..n -> SseLines] : n \in 0..MaxLines}, term \in BOOLEAN }

\* callLLM or callGemini has its stream and has set up its locals (lines
\* 456-467, 604-613); a streaming callback was passed
SseInit ==
  /\ \E v \in Vendors :
       config = [servers |-> 0, solanaWallet |-> FALSE, llm |-> v,
                 lenient |-> FALSE, fields |-> <<>>]
  /\ progressCallback = TRUE
  /\ measureRethrows = TRUE
  /\ inputOk = TRUE
  /\ pc = "off"
  /\ input = <<>>
  /\ fieldIdx = 0
  /\ tools = <<>>
  /\ tool = <<>>
  /\ relevantServers = <<>>
  /\ serverIdx = 0
  /\ relevantTools = <<>>
  /\ toolIdx = 0
  /\ parameters = EmptyObj
  /\ toolResults = [k \in {} |-> k]
  /\ response = NoReply
  /\ hasToolResults = FALSE
  /\ fwp = FwpIdle
  /\ outcome = [status |-> "none", value |-> Undef]
  /\ lastStage = 0
  /\ maxStage = 0
  /\ NoLib
  /\ NoJobs
  /\ fullResponse = <<>>
  /\ tagStack = DemuxStart.tagStack
  /\ currentTagName = DemuxStart.currentTagName
  /\ wordBuffer = DemuxStart.wordBuffer
  /\ insideTag = DemuxStart.insideTag
  /\ streamed = DemuxStart.streamed
  /\ streamEnded = FALSE
  /\ deltaCount = 0
  /\ buffer = <<>>
  /\ received = <<>>
  /\ parsedLines = <<>>
  /\ pending \in (IF config.llm = "gemini" THEN {<<>>} ELSE SseStreams)

\* reader.read() resolves with value: lines 524-537
SseRead(value) ==
  /\ ~streamEnded
  /\ LET st == readLines(DemuxState @@ [fullResponse |-> fullResponse,
                                        buffer |-> buffer,
                                        parsedLines |-> parsedLines],
                         buffer \o value)
     IN /\ SetDemux(st)
        /\ fullResponse' = st.fullResponse
        /\ buffer' = st.buffer
        /\ parsedLines' = st.parsedLines
  /\ received' = received \o value
  /\ pending' = SubSeq(pending, Len(value) + 1, Len(pending))
  /\ UNCHANGED <<streamEnded, deltaCount, argVars, twoVars, libVars, jobVars, runVars>>

\* reader.read() resolves with done: the finally block, lines 538-551
SseDone ==
  /\ ~streamEnded
  /\ pending = <<>>
  /\ streamEnded' = TRUE
  /\ LET content == parseSseLine(buffer)
         st == endFlush(IF content # <<>>
                        THEN processChars(DemuxState, content)
                        ELSE DemuxState)
     IN /\ SetDemux(st)
        /\ fullResponse' = fullResponse \o content
        /\ parsedLines' = IF buffer # <<>> THEN Append(parsedLines, buffer)
                          ELSE parsedLines
  /\ UNCHANGED <<buffer, received, pending, deltaCount, argVars, twoVars,
                 libVars, jobVars, runVars>>

\* The read loop of callLLM, or the for-await loop of callGemini (lines
\* 652-662), which hands each chunk's text to an identical processChunk
SseNext ==
  \/ /\ config.llm # "gemini"
     /\ \E n \in 1..Len(pending) : SseRead(SubSeq(pending, 1, n))
  \/ /\ config.llm # "gemini"
     /\ SseDone
  \/ /\ config.llm = "gemini"
     /\ StreamNext

SpecSse == SseInit /\ [][SseNext]_vars

(***************************************************************************)
(* Payment-retry transport: properties                                     *)
(***************************************************************************)
\* A fetchWithPayment call of an agent with a wallet has returned, and every
\* response the server gave it was a 402
EveryAnswer402 ==
  /\ Returned
  /\ config.solanaWallet
  /\ fwp.requests >= 1
  /\ fwp.all402

\* C1, as stated: with a wallet configured, a fetchWithPayment call whose every
\* request is answered 402 sends exactly two requests, submits exactly one
\* payment and ends in failure.
C1_AsStated ==
  EveryAnswer402 =>
    /\ fwp.requests = 2
    /\ fwp.payments = 1
    /\ fwp.state = "throw"

\* C1, amended: a call never sends more than two requests nor submits more than
\* one payment; a call whose every response was a 402 ends in failure; and if
\* moreover the payment was submitted and confirmed, exactly two requests were
\* sent and exactly one payment was submitted.
C1_BoundedRetry ==
  /\ fwp.requests <= 2
  /\ fwp.payments <= 1
  /\ (Returned /\ fwp.requests >= 1 /\ fwp.all402 => fwp.state = "throw")
  /\ (EveryAnswer402 /\ fwp.paid = "confirmed" =>
        fwp.requests = 2 /\ fwp.payments = 1)

\* The case of C1: two 402 answers around one confirmed payment, then failure
C1_Witness ==
  /\ EveryAnswer402
  /\ fwp.paid = "confirmed"
  /\ fwp.requests = 2
  /\ fwp.payments = 1
  /\ fwp.state = "throw"

(***************************************************************************)
(* Tool orchestration: properties                                          *)
(***************************************************************************)
\* The reply held is empty, missing or has no markup that names anything
Malformed(r, texts) == r.kind = "null" \/ (r.kind = "text" /\ r.text \in texts)

\* C2, as stated: when more than one server is declared and the reply of the
\* server-selection prompt is malformed, unparseable or carries no list of
\* server names, the tool stage starts with every declared server.
C2_AsStated ==
  ( /\ pc = "tools"
    /\ config.servers > 1
    /\ Malformed(response, {<<>>, Garbage, UnclosedServers}) )
  => relevantServers = AllServers

\* C3, as stated: when a server exposes at least one tool and the reply of the
\* tool-selection prompt is malformed, unparseable or empty, exactly the first
\* discovered tool is selected.
C3_AsStated ==
  ( /\ pc = "tool_next"
    /\ toolIdx = 1
    /\ tools # <<>>
    /\ Malformed(response, {<<>>, Garbage}) )
  => relevantTools = SubSeq(tools, 1, 1)

\* An awaited step of the tool loop for one selected tool has failed
ToolStepFailed ==
  /\ pc \in {"tool_params", "tool_invoke"}
  /\ Returned
  /\ fwp.state = "throw"

\* C6, as stated: when parameter generation or invocation of one selected tool
\* fails, the run goes on (with the invocation, after a parameter fallback, or
\* with the next selected tool), it is not settled by the failure, and no
\* entry is added to the tool-result bag.
C6_AsStated ==
  [][ (ToolStepFailed /\ pc' # pc) =>
        /\ toolResults' = toolResults
        /\ outcome' = outcome
        /\ pc' \in {"tool_next", "tool_invoke"} ]_vars

(***************************************************************************)
(* Agent.run: properties                                                   *)
(***************************************************************************)
\* C5: every network operation and progress event belongs to a stage at least
\* as late as all earlier ones, and to a stage no later than the one the run is
\* in; the stages are numbered in the order validation, field resolution,
\* server selection, tool stage, response generation, output validation, return.
C5_StagesInOrder ==
  /\ lastStage = maxStage
  /\ maxStage <= StageOf(pc)

\* The case of C5: a run that resolved a field, invoked a tool, generated a
\* response and returned
C5_Witness ==
  /\ pc = "done"
  /\ outcome.status = "resolved"
  /\ \E i \in 1..Len(input) : input[i] = "data"
  /\ DOMAIN toolResults # {}
  /\ maxStage = 5

\* A sub-step of resolving a tool-backed field ends without a value for it:
\* discovery or the tool-picking call fails or yields nothing usable, or the
\* invocation fails
FieldStepFailed ==
  /\ Returned
  /\ \/ pc \in {"resolve_discover", "resolve_select"}
        /\ (fwp.state = "throw" \/ pc' = "resolve_mcp_fields")
     \/ pc = "resolve_invoke" /\ fwp.state = "throw"

\* C7, as stated: when a sub-step of resolving a tool-backed field fails, the
\* field keeps its value, resolution goes on with the next field, and the run
\* is not settled.
C7_AsStated ==
  [][ (FieldStepFailed /\ pc' # pc) =>
        /\ input' = input
        /\ pc' = "resolve_mcp_fields"
        /\ fieldIdx' = fieldIdx + 1
        /\ outcome' = outcome ]_vars

\* C8, as stated: when the input fails the input schema, no operation or
\* progress event ever happens, and the run ends rejected.
C8_AsStated ==
  ~inputOk =>
    /\ maxStage = 0
    /\ fwp.state = "idle"
    /\ (pc = "done" => outcome.status = "rejected")

\* C9, as stated: when response generation yields fields that the output schema
\* does not accept, run resolves to the empty object.
C9_AsStated ==
  [][ ( /\ pc = "generate_llm"
        /\ pc' = "done"
        /\ response'.kind # "throw"
        /\ ~outputValid(generateResponse(response').v) )
      => outcome' = Resolved(EmptyObj) ]_vars

\* The model replies the transport's outcome allows
RepliesAfter(ret) == IF ret = "throw" THEN {<<>>} ELSE FinalReplies

\* C10, as stated: for the same transport outcome and model reply, the run ends
\* the same way with and without a progress callback (with one the final call
\* streams, without one it does not).
C10_AsStated ==
  (pc = "generate_llm" /\ Returned) =>
    \A reply \in RepliesAfter(fwp.state) :
      validateOutput(generateResponse(callLLM(fwp.state, reply, TRUE)))
        = validateOutput(generateResponse(callLLM(fwp.state, reply, FALSE)))

(***************************************************************************)
(* Payment-retry transport: when a second request is sent                  *)
(***************************************************************************)
\* The first request of a fetchWithPayment call is answered in this step
FirstAnswer ==
  /\ fwp.state = "send"
  /\ fwp.requests = 0
  /\ fwp'.requests = 1

\* The answer to the first request is neither a success nor a 402 that the
\* agent has a wallet to pay for
FirstAnswerNotPayable ==
  /\ FirstAnswer
  /\ fwp'.state # "ok"
  /\ (~fwp'.all402 \/ ~config.solanaWallet)

\* C11: a fetchWithPayment call sends its second request only when the first
\* response was a 402 and a wallet is configured; a first response that is a
\* 402 without a wallet, or any other non-success response, makes the call
\* fail after exactly one request and no payment, with a failure that carries
\* the status and the body text of that response.
C11_SecondRequestNeeds402AndWallet ==
  [][ /\ (fwp.state = "send" /\ fwp.requests = 1 /\ fwp'.requests = 2
           => fwp.all402 /\ config.solanaWallet)
      /\ (FirstAnswerNotPayable
           => /\ fwp'.state = "throw"
              /\ fwp'.requests = 1
              /\ fwp'.payments = 0
              /\ fwp'.error = RequestFailed(IF fwp'.all402 THEN "402" ELSE "other",
                                            fwp'.body)) ]_vars

\* The case of C11: a 402 answered to an agent without a wallet has failed the
\* call after one request, with the body text in the failure
C11_Witness ==
  /\ fwp.state = "throw"
  /\ ~config.solanaWallet
  /\ fwp.requests = 1
  /\ fwp.all402
  /\ fwp.payments = 0
  /\ fwp.error = RequestFailed("402", "bad")

(***************************************************************************)
(* Payment-retry transport: one budget per call                            *)
(***************************************************************************)
\* C12: the retry budget is per fetchWithPayment call: every call starts with
\* no retry used, whatever earlier calls of the run have spent, and a call made
\* after another call for the same server has paid and retried still answers its
\* own first 402 (wallet configured, payment terms decodable) by submitting a
\* payment instead of failing.
C12_BudgetPerCall ==
  [][ /\ (fwp'.state = "send" /\ fwp'.requests = 0 => fwp'.retries = 0)
      /\ (FirstAnswer /\ fwp.paidBefore /\ fwp'.all402 /\ config.solanaWallet
             /\ fwp'.body = "good"
           => fwp'.state = "sendTransaction") ]_vars

\* The case of C12: an earlier call for this server (discovery, selection or
\* parameter generation) paid and retried, and the invocation of a tool has now
\* paid and retried as well
C12_Witness ==
  /\ pc = "tool_invoke"
  /\ fwp.paidBefore
  /\ fwp.paid = "confirmed"
  /\ fwp.retries = 1
  /\ fwp.requests = 2
  /\ fwp.state = "ok"

(***************************************************************************)
(* Server selection: zero or one declared server                           *)
(***************************************************************************)
\* C13, as stated: with exactly one declared server no server-selection model
\* call is made and that server is the one tool discovery works on; with no
\* declared server neither server selection nor tool discovery takes place.
C13_AsStated ==
  /\ (config.servers = 1 =>
        /\ pc # "select_servers_llm"
        /\ (StageOf(pc) \in {4, 5} => relevantServers = AllServers))
  /\ (config.servers = 0 =>
        /\ pc # "select_servers_llm"
        /\ pc \notin {"tools_server", "tools_discover", "tools_select",
                      "tool_next", "tool_params", "tool_invoke"})

(***************************************************************************)
(* Response generation: the tool-results context block                     *)
(***************************************************************************)
\* A tool result that is falsy (null, false, the empty string) or empty ({})
FalsyOrEmpty(v) == v \in {"null", "false", "emptyString", "emptyObject"}

\* C14, as stated: the prompt of final response generation holds a tool-results
\* context block exactly when some tool result is neither falsy nor empty; with
\* no tool result, or only falsy or empty ones, it holds no such block.
C14_AsStated ==
  pc = "generate_llm" =>
    (hasToolResults <=> \E k \in DOMAIN toolResults : ~FalsyOrEmpty(toolResults[k]))

(***************************************************************************)
(* Output Schema: the constructor and validateNoArrays                     *)
(***************************************************************************)
\* A Zod schema node: _def.typeName, the wrapped schema of an optional, a
\* nullable or an array (inner), the entries of an object's shape in key order
Z(typeName, inner, shape) == [typeName |-> typeName, inner |-> inner, shape |-> shape]

Entry(key, schema) == [key |-> key, schema |-> schema]

\* Mutant of unwrap: a single wrapper is removed
unwrapOnce(schema) ==
  IF schema.typeName \in {"ZodOptional", "ZodNullable"} THEN schema.inner[1]
  ELSE schema

\* The while loop of lines 985-988
RECURSIVE unwrap(_)
unwrap(schema) ==
  IF schema.typeName \in {"ZodOptional", "ZodNullable"} THEN unwrap(schema.inner[1])
  ELSE schema

\* path ? `${path}.${key}` : key
currentPath(path, key) == IF path # <<>> THEN path \o <<".">> \o key ELSE key

Validated == [kind |-> "agent", path |-> <<>>]
ArrayError(path) == [kind |-> "threw", path |-> path]

\* validateNoArrays, from entry i of the shape on: the first array met in key
\* order, depth first, is thrown with its path
RECURSIVE validateFrom(_, _, _)
validateFrom(shape, i, path) ==
  IF i > Len(shape) THEN Validated
  ELSE IF unwrap(shape[i].schema).typeName = "ZodArray"
       THEN ArrayError(currentPath(path, shape[i].key))
  ELSE IF unwrap(shape[i].schema).typeName = "ZodObject"
            /\ validateFrom(unwrap(shape[i].schema).shape, 1,
                            currentPath(path, shape[i].key)).kind = "threw"
       THEN validateFrom(unwrap(shape[i].schema).shape, 1,
                         currentPath(path, shape[i].key))
  ELSE validateFrom(shape, i + 1, path)

validateNoArrays(schema, path) == validateFrom(schema.shape, 1, path)

(***************************************************************************)
(* Markup codec: objToXml                                                  *)
(* Values to encode: strings, numbers (as String(n) prints them), booleans *)
(* and objects, an object being the sequence of its entries in key order.  *)
(***************************************************************************)
KV(key, value) == [key |-> key, value |-> value]

\* name.replace(/[^a-zA-Z0-9_]/g, "_").replace(/^[^a-zA-Z]/, "tag_$&"); the
\* texts encoded hold no capital letters
sanitizeTagName(name) ==
  LET IsLetter(c) ==
        c \in {"a", "b", "c", "d", "e", "f", "g", "h", "i", "j", "k", "l", "m",
               "n", "o", "p", "q", "r", "s", "t", "u", "v", "w", "x", "y", "z"}
      replaced == [i \in 1..Len(name) |->
                     IF IsLetter(name[i]) \/ name[i] \in Digits \/ name[i] = "_"
                     THEN name[i] ELSE "_"]
  IN IF replaced # <<>> /\ ~IsLetter(replaced[1])
     THEN <<"t", "a", "g", "_">> \o replaced ELSE replaced

wrapTag(tag, content) == Tag(sanitizeTagName(tag), content)

\* String(value) of a primitive
String(value) ==
  IF value.kind = "bool"
  THEN (IF value.v THEN <<"t", "r", "u", "e">> ELSE <<"f", "a", "l", "s", "e">>)
  ELSE value.v

\* objToXml of an object or a primitive; parentKey <<>> when not given
RECURSIVE objToXml(_, _)
RECURSIVE entriesXml(_, _)
entriesXml(entries, i) ==
  IF i > Len(entries) THEN <<>>
  ELSE (IF entries[i].value.kind = "obj"
        THEN objToXml(entries[i].value, entries[i].key)
        ELSE Tag(entries[i].key, String(entries[i].value)))
       \o entriesXml(entries, i + 1)

objToXml(obj, parentKey) ==
  IF obj.kind = "obj"
  THEN IF obj.v = <<>>
       THEN wrapTag(IF parentKey # <<>> THEN parentKey
                    ELSE <<"e", "m", "p", "t", "y">>, <<>>)
       ELSE IF parentKey # <<>> THEN wrapTag(parentKey, entriesXml(obj.v, 1))
       ELSE entriesXml(obj.v, 1)
  ELSE wrapTag(IF parentKey # <<>> THEN parentKey ELSE <<"v", "a", "l", "u", "e">>,
               String(obj))

(***************************************************************************)
(* The xml module (xml.ts): xmlToObj                                       *)
(***************************************************************************)
\* Length of the longest run of \w characters that starts at index i; \w is a
\* digit, "_" or a letter (the one-character names sanitizeTagName keeps)
RECURSIVE WordRun(_, _)
WordRun(s, i) ==
  IF i > Len(s) \/ ~(s[i] \in Digits \/ s[i] = "_" \/
                     sanitizeTagName(<<s[i]>>) = <<s[i]>>)
  THEN 0 ELSE 1 + WordRun(s, i + 1)

\* All matches from index i on of /<(\w+)>([\s\S]*?)<\/\1>/g, or, with a name
\* given, of /<item>([\s\S]*?)<\/item>/g
RECURSIVE xml_matches(_, _, _)
xml_matches(s, i, only) ==
  IF i > Len(s) THEN <<>>
  ELSE IF /\ s[i] = "<"
          /\ WordRun(s, i + 1) > 0
          /\ HasAt(s, i + 1 + WordRun(s, i + 1), <<">">>)
          /\ (only = <<>> \/ only = SubSeq(s, i + 1, i + WordRun(s, i + 1)))
          /\ IndexOfSub(s, <<"<", "/">> \o SubSeq(s, i + 1, i + WordRun(s, i + 1))
                              \o <<">">>, i + 2 + WordRun(s, i + 1)) # 0
       THEN LET n == WordRun(s, i + 1)
                j == IndexOfSub(s, <<"<", "/">> \o SubSeq(s, i + 1, i + n) \o <<">">>,
                                i + 2 + n)
            IN <<[name |-> SubSeq(s, i + 1, i + n),
                  body |-> SubSeq(s, i + 2 + n, j - 1)]>>
               \o xml_matches(s, j + n + 3, only)
  ELSE xml_matches(s, i + 1, only)

\* parseElement of the xml module; an array is kind "arr" with its items
RECURSIVE xml_parseElement(_)
xml_parseElement(content) ==
  LET ms == xml_matches(content, 1, <<>>)
      \* if (!tagName || !tagContent) continue
      kept == {k \in 1..Len(ms) : ms[k].body # <<>>}
      last(nm) == CHOOSE k \in kept :
                    /\ ms[k].name = nm
                    /\ \A k2 \in kept : ms[k2].name = nm => k2 <= k
      \* /<\w+>/.test(t)
      hasTag(t) == \E i \in 1..Len(t) :
                     /\ t[i] = "<"
                     /\ WordRun(t, i + 1) > 0
                     /\ HasAt(t, i + 1 + WordRun(t, i + 1), <<">">>)
      itemOf(m) == IF hasTag(m.body) THEN xml_parseElement(m.body)
                   ELSE StrV(Trim(m.body))
      items(t) == LET is == xml_matches(t, 1, K_item)
                  IN [kind |-> "arr", v |-> [k \in 1..Len(is) |-> itemOf(is[k])]]
      valueOf(m) ==
        IF hasTag(m.body)
        THEN IF m.name = <<"a", "r", "r", "a", "y">>
                \/ IndexOfSub(m.body, <<"<">> \o K_item \o <<">">>, 1) # 0
             THEN items(m.body)
             ELSE xml_parseElement(m.body)
        ELSE StrV(Trim(m.body))
  IN IF ms = <<>> THEN StrV(Trim(content))
     ELSE ObjV([nm \in {ms[k].name : k \in kept} |-> valueOf(ms[last(nm)])])

\* Bound: nesting of the Output Schemas tried (objects and wrappers)
MaxNest == 3

\* One level of an Output Schema around the schema below it: a wrapper, or an
\* object holding it under key a, alone or beside a field b that comes before
\* or after it and is a string or an array
Layers == {"optional", "nullable", "a", "a_b", "b_a", "arr_a", "a_arr"}

\* Leaves: z.string(), z.array(z.string()), z.object({})
Leaves ==
  [string |-> Z("ZodString", <<>>, <<>>),
   array |-> Z("ZodArray", <<Z("ZodString", <<>>, <<>>)>>, <<>>),
   object |-> Z("ZodObject", <<>>, <<>>)]

\* The schema with the given levels, outermost first, around a leaf
RECURSIVE Nest(_, _)
Nest(layers, leaf) ==
  IF layers = <<>> THEN leaf
  ELSE IF Head(layers) = "optional"
       THEN Z("ZodOptional", <<Nest(Tail(layers), leaf)>>, <<>>)
  ELSE IF Head(layers) = "nullable"
       THEN Z("ZodNullable", <<Nest(Tail(layers), leaf)>>, <<>>)
  ELSE Z("ZodObject", <<>>,
         (CASE Head(layers) = "b_a" -> <<Entry(<<"b">>, Leaves.string)>>
            [] Head(layers) = "arr_a" -> <<Entry(<<"b">>, Leaves.array)>>
            [] OTHER -> <<>>)
         \o <<Entry(<<"a">>, Nest(Tail(layers), leaf))>> \o
         (CASE Head(layers) = "a_b" -> <<Entry(<<"b">>, Leaves.string)>>
            [] Head(layers) = "a_arr" -> <<Entry(<<"b">>, Leaves.array)>>
            [] OTHER -> <<>>))

\* The Output Schemas tried: z.object at the top
OutputSchemas ==
  { Nest(ls, Leaves[leaf]) :
      ls \in { l \in UNION {[1..n -> Layers] : n \in 1..MaxNest} :
                l[1] \notin {"optional", "nullable"} },
      leaf \in DOMAIN Leaves }

\* The object with the given levels around a leaf: each level holds the value
\* below it under key a, b or a-b, alone or followed by a field b
RECURSIVE NestTree(_, _)
NestTree(layers, leaf) ==
  IF layers = <<>> THEN leaf
  ELSE ObjV(<<KV(CASE Head(layers) = "b" -> <<"b">>
                   [] Head(layers) = "a-b" -> <<"a", "-", "b">>
                   [] OTHER -> <<"a">>,
                 NestTree(Tail(layers), leaf))>>
            \o (IF Head(layers) = "a_b" THEN <<KV(<<"b">>, StrV(<<"x">>))>>
                ELSE <<>>))

\* The trees encoded; leaves: strings, numbers, a boolean, the empty object
Trees ==
  { NestTree(ls, leaf) :
      ls \in UNION {[1..n -> {"a", "b", "a-b", "a_b"}] : n \in 1..MaxNest},
      leaf \in {StrV(<<"x">>), StrV(<<"4", "2">>), StrV(<<" ", "x">>),
                NumV(<<"7">>), NumV(<<"-", "1">>), BoolV(TRUE), ObjV(<<>>)} }

\* Texts given to the xml module: the text of its own test, and a tag v around
\* a number, a padded number, a decimal, words, or a nested tag
XmlTexts ==
  { Tag(<<"n", "a", "m", "e">>, <<"t", "e", "s", "t">>)
      \o Tag(<<"v", "a", "l", "u", "e">>, <<"4", "2">>) }
  \cup { Tag(<<"v">>, c) :
           c \in { <<"4", "2">>, <<" ", "4", "2", " ">>, <<"4", ".", "2">>,
                   <<"x">>, <<" ", "x", " ">>, <<"t", "r", "u", "e">>,
                   <<"4", "2", "x">>, Tag(<<"w">>, <<"7">>) } }

\* Lines 951-975 of generateResponse for the Output Schema with the given
\* shape, given the reply text: the fields found in the source object, a string
\* field that was decoded as an object being taken again from the raw text
extractShape(shape, text) ==
  LET parsed == xmlToObj(text)
      src == sourceObject(parsed)
      present == {i \in 1..Len(shape) : Prop(src, shape[i].key) # Undef}
      entry(key) == shape[CHOOSE i \in present : shape[i].key = key]
      value(e) ==
        IF /\ unwrap(e.schema).typeName = "ZodString"
           /\ IsObj(Prop(src, e.key))
           /\ rawField(text, e.key) # Undef
        THEN rawField(text, e.key)
        ELSE Prop(src, e.key)
  IN IF ~Truthy(parsed) THEN EmptyObj
     ELSE ObjV([key \in {shape[i].key : i \in present} |-> value(entry(key))])

\* Output Schemas with one or two top-level fields, each a string, an optional
\* string or an object { b: string }, and for each the replies that hold one
\* tag pair per field, bare or inside one outer tag r; a string field holds
\* text, nothing, or text with markup in it
ReplyInputs ==
  LET str == Leaves.string
      opt == Z("ZodOptional", <<str>>, <<>>)
      obj == Z("ZodObject", <<>>, <<Entry(<<"b">>, str)>>)
      bodies(schema) ==
        IF schema = obj THEN {Tag(<<"b">>, <<"x">>)}
        ELSE {<<"x">>, <<>>, <<"x", " ">> \o Tag(<<"i">>, <<"y">>)}
      shapes == { <<Entry(<<"a">>, s)>> : s \in {str, opt, obj} }
                  \cup { <<Entry(<<"a">>, s), Entry(<<"b">>, t)>> :
                           s \in {str, opt, obj}, t \in {str, obj} }
      texts(shape) ==
        { [i \in 1..Len(shape) |-> Tag(shape[i].key, body[i])] :
            body \in { f \in [1..Len(shape) -> UNION {bodies(shape[i].schema) :
                                                      i \in 1..Len(shape)}] :
                         \A i \in 1..Len(shape) : f[i] \in bodies(shape[i].schema) } }
  IN UNION { { [kind |-> "reply",
                v |-> [shape |-> shape, wrapped |-> w,
                       text |-> IF w THEN Tag(<<"r">>, JoinWith(ts, <<>>))
                                ELSE JoinWith(ts, <<>>)]] :
                 w \in BOOLEAN, ts \in texts(shape) } :
             shape \in shapes }

LibInit ==
  /\ NoRun
  /\ NoStream
  /\ NoJobs
  /\ libIn \in { [kind |-> "schema", v |-> s] : s \in OutputSchemas }
             \cup { [kind |-> "tree", v |-> t] : t \in Trees }
             \cup { [kind |-> "xml", v |-> t] : t \in XmlTexts }
             \cup ReplyInputs
  /\ libOut = [kind |-> "none"]
  /\ runs = <<>>
  /\ interleaved = FALSE

\* new Agent({ outputFormat, ... })
Construct ==
  /\ libIn.kind = "schema"
  /\ libOut.kind = "none"
  /\ libOut' = validateNoArrays(libIn.v, <<>>)
  /\ UNCHANGED <<libIn, jobVars, streamVars, argVars, twoVars, runVars>>

\* objToXml(tree)
Encode ==
  /\ libIn.kind = "tree"
  /\ libOut.kind = "none"
  /\ libOut' = [kind |-> "xml", v |-> objToXml(libIn.v, <<>>)]
  /\ UNCHANGED <<libIn, jobVars, streamVars, argVars, twoVars, runVars>>

\* xmlToObj(text) of the text just encoded
Decode ==
  /\ libOut.kind = "xml"
  /\ libOut' = [kind |-> "decoded", v |-> xmlToObj(libOut.v)]
  /\ UNCHANGED <<libIn, jobVars, streamVars, argVars, twoVars, runVars>>

\* xmlToObj(text) of the xml module
ModuleDecode ==
  /\ libIn.kind = "xml"
  /\ libOut.kind = "none"
  /\ libOut' = [kind |-> "module", v |-> xml_parseElement(libIn.v)]
  /\ UNCHANGED <<libIn, jobVars, streamVars, argVars, twoVars, runVars>>

\* The field extraction of generateResponse on a reply
Extract ==
  /\ libIn.kind = "reply"
  /\ libOut.kind = "none"
  /\ libOut' = [kind |-> "extracted", v |-> extractShape(libIn.v.shape, libIn.v.text)]
  /\ UNCHANGED <<libIn, jobVars, streamVars, argVars, twoVars, runVars>>

LibNext ==
  \/ Extract
  \/ Construct
  \/ Encode
  \/ Decode
  \/ ModuleDecode

SpecLib == LibInit /\ [][LibNext]_vars

\* Dotted paths of the array fields of a schema, through objects and wrappers
RECURSIVE ArrayPaths(_, _)
ArrayPaths(schema, path) ==
  CASE schema.typeName = "ZodArray" -> {path}
    [] schema.typeName \in {"ZodOptional", "ZodNullable"} ->
         ArrayPaths(schema.inner[1], path)
    [] schema.typeName = "ZodObject" ->
         UNION { ArrayPaths(schema.shape[i].schema,
                            IF path = <<>> THEN schema.shape[i].key
                            ELSE path \o <<".">> \o schema.shape[i].key) :
                 i \in 1..Len(schema.shape) }
    [] OTHER -> {}

\* C15: constructing an Agent whose Output Schema has an array field at any
\* depth, behind any number of optional or nullable wrappers, throws an error
\* that names the dotted path of an array field of the schema; constructing
\* with a schema without arrays gives the Agent.
C15_ArraysRejectedWithPath ==
  libIn.kind = "schema" /\ libOut.kind # "none" =>
    IF ArrayPaths(libIn.v, <<>>) = {}
    THEN libOut.kind = "agent"
    ELSE libOut.kind = "threw" /\ libOut.path \in ArrayPaths(libIn.v, <<>>)

\* The case of C15: { a: { a: z.array(z.string()).optional() } } was rejected
\* with path a.a
C15_Witness ==
  /\ libIn = [kind |-> "schema", v |-> Nest(<<"a", "a", "optional">>, Leaves.array)]
  /\ libOut = ArrayError(<<"a", ".", "a">>)

(***************************************************************************)
(* Markup codec: round trip                                                *)
(***************************************************************************)
\* A tree to encode, as the decoded value with the same keys and values
RECURSIVE AsDecoded(_)
AsDecoded(tree) ==
  IF tree.kind # "obj" THEN tree
  ELSE ObjV([k \in {tree.v[i].key : i \in 1..Len(tree.v)} |->
               AsDecoded(tree.v[CHOOSE i \in 1..Len(tree.v) :
                                  tree.v[i].key = k].value)])

\* C16, as stated: for every tree of strings, numbers, booleans and nested
\* objects (no arrays; the keys tried stay distinct under sanitization),
\* xmlToObj(objToXml(tree)) has the same keys and the same values as the tree.
C16_AsStated ==
  libIn.kind = "tree" /\ libOut.kind = "decoded" => libOut.v = AsDecoded(libIn.v)

(***************************************************************************)
(* Two runs on one Agent, interleaved at their awaits                      *)
(***************************************************************************)
\* Bound: text deltas each of the two runs receives
MaxRunDeltas == 2

RunIds == {1, 2}

\* Text deltas the two streams are cut into: whole tags, a word, a separator
RunDeltas == { <<"<", "a", ">">>, <<"<", "/", "a", ">">>, <<"a">>, <<" ">> }

\* stage "input_resolution" and "response_generation" events of lines 160, 227
ProgressEvents ==
  << [field |-> <<"stage">>, value |-> <<"input_resolution">>],
     [field |-> <<"stage">>, value |-> <<"response_generation">>] >>

\* Mutant of localsOf: every run uses the streaming locals of the first run,
\* as if they were fields of the Agent
localsOfAgent(r) == CHOOSE first \in RunIds : \A o \in RunIds : first <= o

\* The activation whose fullResponse, tagStack, currentTagName, wordBuffer and
\* insideTag a run reads and writes: declared with let inside callLLM, so its own
localsOf(r) == r

TwoInit ==
  /\ NoRun
  /\ NoStream
  /\ NoJobs
  /\ libIn = [kind |-> "none"]
  /\ libOut = [kind |-> "none"]
  /\ runs = [r \in RunIds |->
              [pc |-> "idle", received |-> <<>>, deltas |-> 0, fullResponse |-> <<>>,
               locals |-> DemuxStart, updates |-> <<>>,
               outcome |-> [status |-> "running", value |-> Undef]]]
  /\ interleaved = FALSE

\* The other run is in its read loop with part of its stream behind it
OtherMidStream(r) ==
  \E o \in RunIds \ {r} : runs[o].pc = "stream" /\ runs[o].received # <<>>

\* run(input, progressCallback) up to the first reader.read() of response
\* generation
RunStart(r) ==
  /\ runs[r].pc = "idle"
  /\ runs' = [runs EXCEPT ![r].pc = "stream", ![r].updates = ProgressEvents]
  /\ interleaved' = (interleaved \/ OtherMidStream(r))
  /\ UNCHANGED <<streamVars, argVars, runVars, libVars, jobVars>>

\* reader.read() resolves with a text delta: lines 524-536
RunChunk(r) ==
  /\ runs[r].pc = "stream"
  /\ runs[r].deltas < MaxRunDeltas
  /\ \E chunk \in RunDeltas :
       runs' = [runs EXCEPT
                  ![r].received = @ \o chunk,
                  ![r].deltas = @ + 1,
                  ![r].updates =
                     @ \o processChars(runs[localsOf(r)].locals, chunk).streamed,
                  ![localsOf(r)].fullResponse = @ \o chunk,
                  ![localsOf(r)].locals =
                     [processChars(@, chunk) EXCEPT !.streamed = <<>>]]
  /\ interleaved' = (interleaved \/ OtherMidStream(r))
  /\ UNCHANGED <<streamVars, argVars, runVars, libVars, jobVars>>

\* reader.read() resolves with done: lines 538-553, then the rest of
\* generateResponse and of run
RunEnd(r) ==
  /\ runs[r].pc = "stream"
  /\ runs' = [runs EXCEPT
               ![r].pc = "done",
               ![r].updates = @ \o endFlush(runs[localsOf(r)].locals).streamed,
               ![r].outcome =
                  validateOutput(generateResponse(Text(runs[localsOf(r)].fullResponse)))]
  /\ interleaved' = (interleaved \/ OtherMidStream(r))
  /\ UNCHANGED <<streamVars, argVars, runVars, libVars, jobVars>>

TwoNext ==
  \/ \E r \in RunIds : RunStart(r)
  \/ \E r \in RunIds : RunChunk(r)
  \/ \E r \in RunIds : RunEnd(r)

SpecTwoRuns == TwoInit /\ [][TwoNext]_vars

\* What run r has delivered and settled to, were it alone on the Agent with
\* the text deltas it received
AloneUpdates(r) ==
  IF runs[r].pc = "idle" THEN <<>>
  ELSE ProgressEvents \o
       (IF runs[r].pc = "done"
        THEN endFlush(processChars(DemuxStart, runs[r].received)).streamed
        ELSE processChars(DemuxStart, runs[r].received).streamed)

AloneOutcome(r) ==
  IF runs[r].pc = "done"
  THEN validateOutput(generateResponse(Text(runs[r].received)))
  ELSE [status |-> "running", value |-> Undef]

RECURSIVE OpenNames(_, _, _, _)
OpenNames(text, i, open, lt) ==
  IF i > Len(text) THEN open
  ELSE IF text[i] = "<" THEN OpenNames(text, i + 1, open, i)
  ELSE IF text[i] = ">" /\ lt # 0
       THEN OpenNames(text, i + 1,
                      IF HasAt(text, lt + 1, <<"/">>) THEN Pop(open)
                      ELSE IF Trim(SubSeq(text, lt + 1, i - 1)) = <<>> THEN open
                      ELSE Append(open,
                                  SubSeq(Trim(SubSeq(text, lt + 1, i - 1)), 1,
                                         NameRun(Trim(SubSeq(text, lt + 1, i - 1)), 1))),
                      0)
  ELSE OpenNames(text, i + 1, open, lt)

\* Field the claim gives to an update emitted after the first n characters
FieldAfter(n) ==
  JoinWith(OpenNames(SubSeq(fullResponse, 1, n), 1, <<>>, 0), <<"_">>)

\* C18, as stated: the field of every Streaming Update is the names of the
\* tags open at the moment of emission, outermost first, joined by "_".
C18_AsStated ==
  LET tr == DemuxStates(DemuxStart, fullResponse)
      n == Len(fullResponse)
  IN /\ \A g \in 1..n :
          \A k \in (Len(tr[g].streamed) + 1)..Len(tr[g + 1].streamed) :
            streamed[k].field = FieldAfter(g - 1)
     /\ \A k \in (Len(tr[n + 1].streamed) + 1)..Len(streamed) :
          streamed[k].field = FieldAfter(n)

(***************************************************************************)
(* The xml module: numbers                                                 *)
(***************************************************************************)
\* C19, as stated: the xml module's xmlToObj gives, for a tag whose content
\* holds no "<", the number when the trimmed content matches ^\d+(\.\d+)?$
\* (<value>42</value> gives the number 42) and the trimmed string otherwise.
C19_AsStated ==
  libIn.kind = "xml" /\ libOut.kind = "module" =>
    \A k \in 1..Len(xml_matches(libIn.v, 1, <<>>)) :
      LET m == xml_matches(libIn.v, 1, <<>>)[k]
      IN ~Includes(m.body, "<") =>
           Prop(libOut.v, m.name) =
             (IF IsNumberText(Trim(m.body)) THEN NumV(Trim(m.body))
              ELSE StrV(Trim(m.body)))

(***************************************************************************)
(* Payment-retry transport: payment before the retry                       *)
(***************************************************************************)
\* C20, as stated: the second request of a call is sent only after the
\* transfer has been submitted and its confirmation has completed; once the
\* submission or the confirmation has failed, no further request is sent and the
\* call fails.
C20_AsStated ==
  /\ (fwp.requests = 2 => fwp.paid = "confirmed")
  /\ (fwp.paid = "failed" =>
        /\ fwp.requests = 1
        /\ fwp.state \in {"confirmTransaction", "throw"})


(***************************************************************************)
(* Sequencing of one run                                                   *)
(***************************************************************************)
\* A network operation has been issued and has not yet returned or failed
InFlight == fwp.state \in {"send", "sendTransaction", "confirmTransaction", "sdk"}

\* The step issues the first request of a new call
CallBegins == fwp'.state \in {"send", "sdk"} /\ fwp'.requests = 0 /\ fwp' # fwp

\* C21: within one run at most one network operation is in flight: while one
\* is, the run stays where it is and no other call begins. Parameter
\* generation of a tool begins only at the head of the tool loop with nothing
\* pending, the loop moves to the next tool only when parameter generation or
\* invocation of the current one has returned or failed, and it moves to the
\* next server (whose discovery begins only at the head of the server loop)
\* only when every selected tool of the current one has been gone through or
\* its discovery returned no tool.
C21_OneOperationAtATime ==
  [][/\ InFlight =>
          /\ pc' = pc
          /\ <<fieldIdx, serverIdx, toolIdx, toolResults, input>>'
               = <<fieldIdx, serverIdx, toolIdx, toolResults, input>>
          /\ ~CallBegins
     /\ (pc' = "tool_params" /\ pc # "tool_params") =>
          /\ pc = "tool_next"
          /\ fwp.state = "idle"
          /\ tool' = relevantTools[toolIdx]
     /\ (toolIdx' = toolIdx + 1 /\ toolIdx >= 1) =>
          /\ pc \in {"tool_params", "tool_invoke"}
          /\ fwp.state \in {"ok", "throw"}
          /\ pc' = "tool_next"
     /\ (pc' = "tools_discover" /\ pc # "tools_discover") =>
          /\ pc = "tools_server"
          /\ fwp.state = "idle"
     /\ (serverIdx' = serverIdx + 1 /\ serverIdx >= 1) =>
          /\ \/ pc = "tool_next" /\ toolIdx > Len(relevantTools)
             \/ pc = "tools_discover" /\ fwp.state = "ok" /\ tools' = <<>>
          /\ pc' = "tools_server"
    ]_vars

\* The second selected tool of the second server has its parameters being
\* generated, the request for them is in flight
C21_Witness ==
  /\ pc = "tool_params"
  /\ serverIdx = 2
  /\ toolIdx = 2
  /\ InFlight


(***************************************************************************)
(* End of the stream                                                       *)
(***************************************************************************)
\* C22, as stated: when the reader reports the end of the stream while the
\* word buffer is non-empty and a tag is open, the updates grow by exactly one,
\* which carries the buffered text for the current field.
C22_AsStated ==
  [][(~streamEnded /\ streamEnded' /\ wordBuffer # <<>> /\ tagStack # <<>>) =>
       streamed' = Append(streamed, Update(tagStack, wordBuffer))]_vars

\* C22 (amended): when every text delta received has been processed (on the
\* SSE path: after the final line without a newline, if any, has been parsed at
\* the end of the stream) and the word buffer is then non-empty with a tag
\* open, exactly one further update, carrying the buffered text for the
\* current field, is emitted before the model call returns; with the word
\* buffer empty or no tag open, none is. On both paths.
C22_FinalFlush ==
  streamEnded =>
    LET all == processChars(DemuxStart, fullResponse)
    IN streamed = IF all.wordBuffer # <<>> /\ all.tagStack # <<>>
                  THEN Append(all.streamed, Update(all.tagStack, all.wordBuffer))
                  ELSE all.streamed

\* An SSE stream ended with an unterminated data line after a complete one,
\* and the word left over at the end was sent as the last update
C22_Witness ==
  /\ streamEnded
  /\ config.llm # "gemini"
  /\ Len(parsedLines) = 2
  /\ parseSseLine(buffer) # <<>>
  /\ LET all == processChars(DemuxStart, fullResponse)
     IN /\ all.wordBuffer # <<>>
        /\ all.tagStack # <<>>
        /\ streamed = Append(all.streamed, Update(all.tagStack, all.wordBuffer))


(***************************************************************************)
(* Text outside the tags                                                   *)
(***************************************************************************)
\* The values of a sequence of updates, concatenated
RECURSIVE AllValues(_)
AllValues(ups) ==
  IF ups = <<>> THEN <<>> ELSE Head(ups).value \o AllValues(Tail(ups))

\* Character g of the text is neither part of a tag nor inside an open tag
Outside(tr, g) ==
  /\ fullResponse[g] # "<"
  /\ ~tr[g].insideTag
  /\ tr[g].tagStack = <<>>

\* The characters of the text from position g on that are not part of a tag
\* and were received while a tag was open
RECURSIVE OpenText(_, _)
OpenText(tr, g) ==
  IF g > Len(fullResponse) THEN <<>>
  ELSE (IF fullResponse[g] # "<" /\ ~tr[g].insideTag /\ tr[g].tagStack # <<>>
        THEN <<fullResponse[g]>> ELSE <<>>) \o OpenText(tr, g + 1)

\* C23: every update was emitted for a non-empty field (a tag was open) and
\* has a non-empty value; the values of the updates, in order, followed by the
\* word still buffered, are exactly the characters received inside an open
\* tag, so that no character received outside every tag is in any update; all
\* characters received are in the full text.
C23_NothingOutsideTags ==
  LET tr == DemuxStates(DemuxStart, fullResponse)
  IN /\ \A k \in 1..Len(streamed) :
          streamed[k].field # <<>> /\ streamed[k].value # <<>>
     /\ AllValues(streamed) \o (IF streamEnded THEN <<>> ELSE wordBuffer)
          = OpenText(tr, 1)
     /\ config.llm # "gemini" =>
          Len(fullResponse) = Len(AllValues([k \in 1..Len(parsedLines) |->
                                    [value |-> parseSseLine(parsedLines[k])]]))

\* The stream has ended; characters arrived before the first tag and after
\* the last one, and updates were emitted for the text in between
C23_Witness ==
  LET tr == DemuxStates(DemuxStart, fullResponse)
  IN /\ streamEnded
     /\ streamed # <<>>
     /\ fullResponse # <<>>
     /\ Outside(tr, 1)
     /\ Outside(tr, Len(fullResponse))


(***************************************************************************)
(* Splitting of the text into deltas                                       *)
(***************************************************************************)
\* C24: the updates emitted, and the tag stack, tag name and word held, are
\* those of the whole text received handed to processChunk in one piece:
\* they do not depend on where the text was cut into deltas.
C24_SplitIndependent ==
  LET whole == processChars(DemuxStart, fullResponse)
      ref == IF streamEnded THEN endFlush(whole) ELSE whole
  IN /\ streamed = ref.streamed
     /\ tagStack = ref.tagStack
     /\ currentTagName = ref.currentTagName
     /\ wordBuffer = ref.wordBuffer
     /\ insideTag = ref.insideTag

\* The text <a>aa arrived in four deltas, cut inside the tag and inside the
\* word, and gave the one update of the uncut text
C24_Witness ==
  /\ fullResponse = <<"<", "a", ">", "a", "a">>
  /\ deltaCount = 4
  /\ streamEnded
  /\ streamed = <<Update(<<<<"a">>>>, <<"a", "a">>)>>


(***************************************************************************)
(* Lines of an SSE stream                                                  *)
(***************************************************************************)
\* The lines of a text, read character by character: lines.done are the lines
\* closed by a newline, lines.open is what follows the last newline
RECURSIVE LinesOf(_, _)
LinesOf(text, lines) ==
  IF text = <<>> THEN lines
  ELSE IF Head(text) = "\n"
  THEN LinesOf(Tail(text), [done |-> Append(lines.done, lines.open), open |-> <<>>])
  ELSE LinesOf(Tail(text), [lines EXCEPT !.open = Append(@, Head(text))])

ReceivedLines == LinesOf(received, [done |-> <<>>, open |-> <<>>])

\* C25: whatever the reads, the lines parsed so far are the lines of the text
\* received whose newline has arrived, each once and in order, and the rest of
\* the text is held back in the buffer; when the stream has ended, the
\* remainder, if not empty, has been parsed once, as the last line.
C25_LinesIndependentOfReads ==
  IF streamEnded
  THEN parsedLines = ReceivedLines.done \o
                       (IF ReceivedLines.open # <<>> THEN <<ReceivedLines.open>>
                        ELSE <<>>)
  ELSE /\ parsedLines = ReceivedLines.done
       /\ buffer = ReceivedLines.open

\* A read ended inside the second line: its beginning waits in the buffer,
\* the first line has been parsed
C25_Witness ==
  /\ ~streamEnded
  /\ Len(parsedLines) = 1
  /\ buffer = <<SseData, "{">>
  /\ pending # <<>>
  /\ Head(pending) # "\n"


(***************************************************************************)
(* Data lines that do not parse                                            *)
(***************************************************************************)
\* A line with the data prefix, not the sentinel
IsDataLine(line) == line # <<>> /\ Head(line) = SseData /\ line # <<SseData, "[DONE]">>

\* The payload of a data line is a JSON object carrying a text delta
IsDeltaObject(line) ==
  /\ Len(line) >= 3
  /\ line[2] = "{"
  /\ line[Len(line)] = "}"
  /\ \A i \in 3..(Len(line) - 1) : line[i] \notin {"{", "}", SseData}

BadJson(line) == IsDataLine(line) /\ ~IsDeltaObject(line)

\* The text deltas of lines k, k+1, ... as parseSseLine gives them, with the
\* lines that do not parse left out
RECURSIVE TextWithoutBad(_, _)
TextWithoutBad(lines, k) ==
  IF k > Len(lines) THEN <<>>
  ELSE (IF BadJson(lines[k]) THEN <<>> ELSE parseSseLine(lines[k]))
         \o TextWithoutBad(lines, k + 1)

\* C26: a data line whose payload is not valid JSON gives no text, hence no
\* call of processChunk and no update; the text received is that of the other
\* lines, those after it included, and when the stream has ended every line
\* received has been handed to the parser and the updates are those of that
\* text.
C26_BadJsonSkipped ==
  config.llm # "gemini" =>
    /\ \A k \in 1..Len(parsedLines) :
         BadJson(parsedLines[k]) => parseSseLine(parsedLines[k]) = <<>>
    /\ fullResponse = TextWithoutBad(parsedLines, 1)
    /\ streamEnded =>
         /\ pending = <<>>
         /\ Len(parsedLines) >= Len(SelectSeq(received, LAMBDA c : c = "\n"))
         /\ streamed = endFlush(processChars(DemuxStart,
                                             TextWithoutBad(parsedLines, 1))).streamed

\* A truncated payload came first, a line with text after it; the call
\* returned that text and its update was sent
C26_Witness ==
  /\ streamEnded
  /\ parsedLines = << <<SseData, "{", "x">>,
                      <<SseData, "{", "<", "a", ">", "b", "}">> >>
  /\ fullResponse = <<"<", "a", ">", "b">>
  /\ streamed = <<Update(<<<<"a">>>>, <<"b">>)>>


(***************************************************************************)
(* Text returned in SSE streaming mode                                     *)
(***************************************************************************)
\* The text delta a line carries: that of a data line whose payload is a
\* delta object, with the JSON escapes decoded; nothing for any other line
DeltaOf(line) ==
  IF IsDataLine(line) /\ IsDeltaObject(line)
  THEN [i \in 1..(Len(line) - 3) |->
          IF line[i + 2] = "\\n" THEN "\n" ELSE line[i + 2]]
  ELSE <<>>

RECURSIVE DeltasFrom(_, _)
DeltasFrom(lines, k) ==
  IF k > Len(lines) THEN <<>> ELSE DeltaOf(lines[k]) \o DeltasFrom(lines, k + 1)

\* C27, as stated: when an SSE stream has ended, the text returned is the
\* concatenation, in order, of the text deltas carried by the data lines
\* received; the sentinel line and the lines without the data prefix add
\* nothing.
C27_AsStated ==
  (streamEnded /\ config.llm # "gemini") =>
    fullResponse = DeltasFrom(parsedLines, 1)


(***************************************************************************)
(* Parameter generation: replies that hold no parameters                   *)
(***************************************************************************)
\* What callLLM can return that cannot be parsed into a parameters object:
\* null, the empty text, text without markup
UnparsedReplies == {Null, Text(<<>>), Text(Garbage)}

C29_AsStated ==
  [][/\ toolResults' # toolResults =>
          /\ pc = "tool_invoke"
          /\ fwp.state = "ok"
          /\ \E res \in ToolAnswers(tool) :
               toolResults' = (ResultKey :> res) @@ toolResults
     /\ (pc = "tool_invoke" /\ pc' # pc /\ fwp.state = "ok") =>
          ResultKey \in DOMAIN toolResults'
    ]_vars


(***************************************************************************)
(* Input-field resolution: what it writes                                  *)
(***************************************************************************)
\* C30, as stated: the value of an input field changes only in input-field
\* resolution, only for the field being resolved, whose description is the
\* marker prefix followed by a URL, and only when a tool discovered for it was
\* picked and its invocation returned successfully; the new value is the
\* result of the invocation. No other step of the run changes any field.
C30_AsStated ==
  [][input' # input =>
       /\ pc = "resolve_invoke"
       /\ fieldIdx \in 1..Len(config.fields)
       /\ config.fields[fieldIdx] = "mcp"
       /\ \E k \in 1..Len(tools) : tools[k] = tool
       /\ fwp.state = "ok"
       /\ input' = [input EXCEPT ![fieldIdx] = "data"]
    ]_vars

\* C31: for every Output Schema, a reply that holds a well-formed tag pair for
\* every top-level field of the schema, bare or inside a single outer tag,
\* yields a result in which every one of those fields is present.
C31_AsStated ==
  libIn.kind = "reply" /\ libOut.kind = "extracted" =>
    \A i \in 1..Len(libIn.v.shape) : Prop(libOut.v, libIn.v.shape[i].key) # Undef

\* The run is at a model call made without a streaming callback and the
\* vendor has answered
NonStreamingAnswered ==
  /\ \/ pc \in {"resolve_select", "resolve_params", "select_servers_llm",
                "tools_select", "tool_params"}
     \/ pc = "generate_llm" /\ ~progressCallback
  /\ fwp.state = "ok"

\* C32: in non-streaming mode, on every vendor branch, a vendor response that
\* lacks the reply text makes the model call fail (the caller gets the failure
\* of its measure function, never a reply text).
C32_AsStated ==
  NonStreamingAnswered => callLLM(fwp.state, <<>>, FALSE).kind # "text"

\* The tag names of a markup text: what stands between each "<" (or "</") and
\* the next ">"
TagNamesOf(text) ==
  { SubSeq(text, IF text[i + 1] = "/" THEN i + 2 ELSE i + 1,
           IndexOfChar(text, ">", i) - 1) :
      i \in {j \in 1..Len(text) : text[j] = "<"} }

\* [A-Za-z0-9_]+ starting with a letter (the texts hold no capital letters)
IsSanitized(name) ==
  LET letters == {"a", "b", "c", "d", "e", "f", "g", "h", "i", "j", "k", "l", "m",
                  "n", "o", "p", "q", "r", "s", "t", "u", "v", "w", "x", "y", "z"}
  IN /\ name # <<>>
     /\ name[1] \in letters
     /\ \A i \in 1..Len(name) : name[i] \in letters \cup Digits \cup {"_"}

\* C33: every tag name that objToXml emits is sanitized, for keys at every
\* nesting level, with primitive values as well as with object values.
C33_AsStated ==
  libIn.kind = "tree" /\ libOut.kind = "xml" =>
    \A name \in TagNamesOf(libOut.v) : IsSanitized(name)

(***************************************************************************)
(* geeksy JobManager (job-manager.ts): the jobs table and its operations   *)
(* A row keeps the status, the log messages and the awaiting-callback type *)
(* and data; a manager state m is the table with the notifications sent    *)
(* (each goes to the broadcast channel and to every subscribed handler)    *)
(* and the value the latest call returned.                                 *)
(***************************************************************************)
\* Bound: calls made on the JobManager
MaxJobOps == 4

JobIds == {"j1", "j2"}

\* undefined, as the value of an optional column
Absent == "undefined"

\* db.jobs.update({ jobId }, updates): the columns named are written, the
\* others kept; a column named with the value undefined is written as
\* undefined (lines 180-183 rely on it to empty the two callback columns)
jobsUpdate(jobs, jobId, updates) ==
  [jobs EXCEPT ![jobId] = [c \in DOMAIN @ |->
                             IF c \in DOMAIN updates THEN updates[c] ELSE @[c]]]

\* createJob
createJob(m, jobId) ==
  [jobs |-> (jobId :> [status |-> "pending", logs |-> <<"Job created">>,
                       awaitingCallbackType |-> Absent,
                       awaitingCallbackData |-> Absent]) @@ m.jobs,
   notified |-> Append(m.notified, [id |-> jobId, status |-> "pending"]),
   ret |-> "job"]

\* updateStatus; data holds the awaiting-callback type and data passed, Absent
\* when not passed
updateStatus(m, jobId, status, data) ==
  IF jobId \notin DOMAIN m.jobs THEN [m EXCEPT !.ret = "null"]
  ELSE LET updates ==
             [status |-> status,
              logs |-> Append(m.jobs[jobId].logs, "Status changed to: " \o status)]
             @@ (IF data.awaitingCallbackType # Absent
                 THEN [awaitingCallbackType |-> data.awaitingCallbackType]
                 ELSE <<>>)
             @@ (IF data.awaitingCallbackData # Absent
                 THEN [awaitingCallbackData |-> data.awaitingCallbackData]
                 ELSE <<>>)
       IN [jobs |-> jobsUpdate(m.jobs, jobId, updates),
           notified |-> Append(m.notified, [id |-> jobId, status |-> status]),
           ret |-> "job"]

NoData == [awaitingCallbackType |-> Absent, awaitingCallbackData |-> Absent]

\* log
log(m, jobId, message) ==
  IF jobId \notin DOMAIN m.jobs THEN m
  ELSE [m EXCEPT !.jobs = jobsUpdate(@, jobId,
                                     [logs |-> Append(m.jobs[jobId].logs, message)])]

\* Mutant of resumeWithCallback: the status of the job is not looked at
resumeAnyStatus(m, jobId) ==
  IF jobId \notin DOMAIN m.jobs THEN [m EXCEPT !.ret = "null"]
  ELSE LET logged == log(m, jobId, "Callback received")
           cleared == [logged EXCEPT !.jobs = jobsUpdate(@, jobId, NoData)]
       IN updateStatus(cleared, jobId, "processing", NoData)

\* resumeWithCallback
resumeWithCallback(m, jobId) ==
  IF jobId \notin DOMAIN m.jobs \/ m.jobs[jobId].status # "awaiting_callback"
  THEN [m EXCEPT !.ret = "null"]
  ELSE LET logged == log(m, jobId, "Callback received")
           cleared == [logged EXCEPT !.jobs = jobsUpdate(@, jobId, NoData)]
       IN updateStatus(cleared, jobId, "processing", NoData)

JmInit ==
  /\ NoRun
  /\ NoStream
  /\ NoLib
  /\ geeksy = [pc |-> "none"]
  /\ jm = [pc |-> "ready", ops |-> 0, op |-> "none", jobId |-> "none",
           m |-> [jobs |-> <<>>, notified |-> <<>>, ret |-> "none"]]

\* One call on the manager: the state it leaves and what it was
Called(op, jobId, m) ==
  /\ jm.pc = "ready"
  /\ jm.ops < MaxJobOps
  /\ jm' = [jm EXCEPT !.ops = @ + 1, !.op = op, !.jobId = jobId, !.m = m]
  /\ UNCHANGED <<geeksy, streamVars, argVars, runVars, libVars, twoVars>>

\* createJob(...), which draws a fresh id
CreateJob ==
  \E j \in JobIds \ DOMAIN jm.m.jobs : Called("createJob", j, createJob(jm.m, j))

\* updateStatus(jobId, 'processing'), complete(jobId, result), fail(jobId, error)
UpdateStatus ==
  \E j \in JobIds, status \in {"processing", "completed", "failed"} :
    Called("updateStatus", j, updateStatus(jm.m, j, status, NoData))

\* awaitCallback(jobId, callbackType, callbackData?)
AwaitCallback ==
  \E j \in JobIds, callbackData \in {Absent, "data"} :
    Called("awaitCallback", j,
           updateStatus(jm.m, j, "awaiting_callback",
                        [awaitingCallbackType |-> "user_confirmation",
                         awaitingCallbackData |-> callbackData]))

\* resumeWithCallback(jobId, callbackResult)
ResumeWithCallback ==
  \E j \in JobIds : Called("resumeWithCallback", j, resumeWithCallback(jm.m, j))

\* log(jobId, level, message), which returns nothing
Log ==
  \E j \in JobIds : Called("log", j, [log(jm.m, j, "message") EXCEPT !.ret = "none"])

JmNext ==
  \/ CreateJob
  \/ UpdateStatus
  \/ AwaitCallback
  \/ ResumeWithCallback
  \/ Log

SpecJobManager == JmInit /\ [][JmNext]_vars

MaxApiCalls == 3

\* The contact the message came from
TheContact == "c1"

Flags == {"canCreateAgents", "canAttachContacts", "canSendMessages"}

\* An agents row; flags is the set of capability flags that are true
AgentRow(code, enabled, flags) ==
  [code |-> code, enabled |-> enabled, flags |-> flags,
   contactCount |-> 0, jobCount |-> 0, successCount |-> 0, failureCount |-> 0]

\* AgentManager.createAgent: the new row gets every flag the data carries
createAgent(g, data) ==
  [g EXCEPT !.agents = (Cardinality(DOMAIN g.agents) + 1
                          :> AgentRow("ok", TRUE, data.flags)) @@ @]

\* ContactManager.bindAgent with the default priority
bindAgent(g, contactId, agentId) ==
  IF \E k \in 1..Len(g.bindings) :
       g.bindings[k] = [contactId |-> contactId, agentId |-> agentId]
  THEN g
  ELSE [g EXCEPT !.bindings = Append(@, [contactId |-> contactId, agentId |-> agentId]),
                 !.agents = [a \in DOMAIN @ |->
                               IF a = agentId
                               THEN [@[a] EXCEPT !.contactCount = @ + 1] ELSE @[a]]]

\* ContactManager.recordOutgoing
recordOutgoing(g, contactId) ==
  [g EXCEPT !.messageHistory = Append(@, [contactId |-> contactId,
                                          direction |-> "outgoing"])]

\* ContactManager.getBoundAgents: every binding made is enabled and has
\* priority 0, so the order is the order of the table
getBoundAgents(g, contactId) ==
  LET own == SelectSeq(g.bindings, LAMBDA b : b.contactId = contactId)
  IN [k \in 1..Len(own) |-> own[k].agentId]

\* AgentManager.recordJobResult
recordJobResult(g, agentId, success) ==
  IF agentId \notin DOMAIN g.agents THEN g
  ELSE [g EXCEPT !.agents[agentId] =
          [@ EXCEPT !.jobCount = @ + 1,
                    !.successCount = IF success THEN @ + 1 ELSE @,
                    !.failureCount = IF success THEN @ ELSE @ + 1]]

\* The send callback is called; sends is the number of its calls
callSend(g) == [g EXCEPT !.sends = @ + 1]

\* JobExecutor.updateJob of the record executeAgent inserted
updateJob(g, status) ==
  [g EXCEPT !.jobExecutions[Len(g.jobExecutions)].status = status]

\* Mutant of createJobAPI: sendMessage does not look at the flag
createJobAPIOpenSend(g, call) ==
  LET agent == g.agent
      done(h) == [h EXCEPT !.threw = FALSE]
      thrown(h) == [h EXCEPT !.threw = TRUE]
  IN CASE call.op = "createAgent" ->
            IF "canCreateAgents" \notin agent.flags THEN thrown(g)
            ELSE done(createAgent(g, call))
       [] call.op = "attachAgent" ->
            IF "canAttachContacts" \notin agent.flags THEN thrown(g)
            ELSE done(bindAgent(g, call.contactId, call.agentId))
       [] call.op = "sendMessage" ->
            IF ~g.hasCallback THEN done(g)
            ELSE IF call.sendFails THEN thrown(callSend(g))
            ELSE done(recordOutgoing(callSend(g), call.contactId))

\* One call by the agent code on the API object createJobAPI made for the
\* agent row read when the job began (g.agent); threw tells how the call ended
createJobAPI(g, call) ==
  LET agent == g.agent
      done(h) == [h EXCEPT !.threw = FALSE]
      thrown(h) == [h EXCEPT !.threw = TRUE]
  IN CASE call.op = "createAgent" ->
            IF "canCreateAgents" \notin agent.flags THEN thrown(g)
            ELSE done(createAgent(g, call))
       [] call.op = "attachAgent" ->
            IF "canAttachContacts" \notin agent.flags THEN thrown(g)
            ELSE done(bindAgent(g, call.contactId, call.agentId))
       [] call.op = "sendMessage" ->
            IF "canSendMessages" \notin agent.flags THEN thrown(g)
            ELSE IF ~g.hasCallback THEN done(g)
            ELSE IF call.sendFails THEN thrown(callSend(g))
            ELSE done(recordOutgoing(callSend(g), call.contactId))

\* The calls agent code may make: createAgent with data that carries no flag
\* or every flag, attachAgent of any agent to the contact, sendMessage to the
\* contact, the send callback resolving or rejecting
ApiCalls(g) ==
  { [op |-> "createAgent", flags |-> f] : f \in {{}, Flags} }
  \cup { [op |-> "attachAgent", contactId |-> TheContact, agentId |-> a] :
           a \in DOMAIN g.agents }
  \cup { [op |-> "sendMessage", contactId |-> TheContact, sendFails |-> b] :
           b \in BOOLEAN }

\* Lines 113-122 of executeForMessage, given the result of executeAgent: the
\* job is counted, a response is sent and recorded, the loop goes on
afterAgent(g, failed, responded, sendFails) ==
  LET counted == recordJobResult(g, g.agentIds[g.idx], ~failed)
      next(h) == [h EXCEPT !.pc = "loop", !.idx = @ + 1, !.calls = 0,
                           !.op = "none", !.threw = FALSE]
  IN IF responded /\ g.hasCallback
     THEN IF sendFails THEN [callSend(counted) EXCEPT !.pc = "rejected"]
          ELSE next(recordOutgoing(callSend(counted), TheContact))
     ELSE next(counted)

\* What agent code does at its end: it returns with or without a response, or
\* throws an Error, or throws a value that is not an object (throw null, a
\* promise rejected without a reason)
Endings == {"return", "respond", "throw Error", "throw null"}

JobInit ==
  /\ NoRun
  /\ NoStream
  /\ NoLib
  /\ jm = [pc |-> "none"]
  /\ \E flags \in SUBSET Flags, code \in {"ok", "malformed"},
        second \in {"none", "enabled", "disabled"},
        known \in BOOLEAN, hasCallback \in BOOLEAN :
       geeksy = [pc |-> "idle",
                 agents |-> (1 :> AgentRow(code, TRUE, flags))
                              @@ (IF second = "none" THEN <<>>
                                  ELSE (2 :> AgentRow("ok", second = "enabled", {}))),
                 contacts |-> IF known THEN {TheContact} ELSE {},
                 bindings |-> [k \in 1..(IF second = "none" THEN 1 ELSE 2) |->
                                 [contactId |-> TheContact, agentId |-> k]],
                 messageHistory |-> <<>>,
                 jobExecutions |-> <<>>,
                 hasCallback |-> hasCallback,
                 sends |-> 0,
                 agentIds |-> <<>>, idx |-> 0, agent |-> AgentRow("ok", TRUE, {}),
                 calls |-> 0, op |-> "none", threw |-> FALSE]

JobStep(g) ==
  /\ geeksy' = g
  /\ UNCHANGED <<jm, streamVars, argVars, runVars, libVars, twoVars>>

\* executeForMessage is called for a message of the contact
ExecuteForMessage ==
  /\ geeksy.pc = "idle"
  /\ JobStep([geeksy EXCEPT !.agentIds = getBoundAgents(geeksy, TheContact),
                            !.idx = 1,
                            !.pc = IF getBoundAgents(geeksy, TheContact) = <<>>
                                   THEN "returned" ELSE "loop"])

\* The head of the loop and executeAgent up to the agent code's first step:
\* the agent is read, the job record inserted, the contact looked up and the
\* run function taken from the code
NextAgent ==
  /\ geeksy.pc = "loop"
  /\ LET agentId == geeksy.agentIds[geeksy.idx]
         inserted == [geeksy EXCEPT !.jobExecutions =
                        Append(@, [agentId |-> agentId, status |-> "running"]),
                                    !.agent = geeksy.agents[agentId]]
     IN IF geeksy.idx > Len(geeksy.agentIds)
        THEN JobStep([geeksy EXCEPT !.pc = "returned"])
        ELSE IF agentId \notin DOMAIN geeksy.agents \/ ~geeksy.agents[agentId].enabled
        THEN JobStep([geeksy EXCEPT !.idx = @ + 1])
        ELSE IF TheContact \notin geeksy.contacts
                  \/ geeksy.agents[agentId].code = "malformed"
        THEN JobStep(afterAgent(updateJob(inserted, "failed"), TRUE, FALSE, FALSE))
        ELSE JobStep([inserted EXCEPT !.pc = "code"])

\* The agent code calls the job API
ApiCall ==
  /\ geeksy.pc = "code"
  /\ geeksy.calls < MaxApiCalls
  /\ \E call \in ApiCalls(geeksy) :
       JobStep([createJobAPI(geeksy, call) EXCEPT !.calls = @ + 1, !.op = call.op])

\* The agent code ends; executeAgent closes the job record and
\* executeForMessage handles the result
CodeEnds ==
  /\ geeksy.pc = "code"
  /\ \E ending \in Endings, sendFails \in BOOLEAN :
       CASE ending = "return" ->
              JobStep(afterAgent(updateJob(geeksy, "completed"), FALSE, FALSE, sendFails))
         [] ending = "respond" ->
              JobStep(afterAgent(updateJob(geeksy, "completed"), FALSE, TRUE, sendFails))
         [] ending = "throw Error" ->
              JobStep(afterAgent(updateJob(geeksy, "failed"), TRUE, FALSE, sendFails))
         [] ending = "throw null" ->
              \* error.message at line 202 throws inside the catch block
              JobStep([geeksy EXCEPT !.pc = "rejected"])

JobNext ==
  \/ ExecuteForMessage
  \/ NextAgent
  \/ ApiCall
  \/ CodeEnds

SpecJobExecutor == JobInit /\ [][JobNext]_vars

\* The flag each guarded call of the job API asks for
FlagOf ==
  [createAgent |-> "canCreateAgents", attachAgent |-> "canAttachContacts",
   sendMessage |-> "canSendMessages"]

\* C34: during a job, a createAgent, attachAgent or sendMessage call made
\* through the job API by an agent that lacks canCreateAgents,
\* canAttachContacts or canSendMessages respectively throws, and leaves the
\* agents, the bindings and the message history as they were and the send
\* callback uncalled; so such a call has an effect only with the flag.
C34_FlagsGuardJobApi ==
  [][ (/\ geeksy.pc = "code"
       /\ geeksy'.pc = "code"
       /\ geeksy'.calls = geeksy.calls + 1
       /\ FlagOf[geeksy'.op]
            \notin geeksy.agents[geeksy.agentIds[geeksy.idx]].flags)
      => /\ geeksy'.threw
         /\ geeksy'.agents = geeksy.agents
         /\ geeksy'.bindings = geeksy.bindings
         /\ geeksy'.messageHistory = geeksy.messageHistory
         /\ geeksy'.sends = geeksy.sends ]_vars

\* An agent that may create agents and bind them but not send messages has
\* created and bound an agent, and its sendMessage call has thrown
C34_Witness ==
  /\ geeksy.pc = "code"
  /\ geeksy.agent.flags = {"canCreateAgents", "canAttachContacts"}
  /\ geeksy.op = "sendMessage"
  /\ geeksy.threw
  /\ geeksy.sends = 0
  /\ Len(geeksy.bindings) = 2
  /\ geeksy.calls = 3

\* C35, as stated: when executeForMessage has ended, every job-execution record
\* it created has status completed or failed, and each agent's job counter has
\* gone up by one per record created for it (the counters start at 0).
C35_AsStated ==
  geeksy.pc \in {"returned", "rejected"} =>
    /\ \A k \in 1..Len(geeksy.jobExecutions) :
         geeksy.jobExecutions[k].status \in {"completed", "failed"}
    /\ \A a \in DOMAIN geeksy.agents :
         geeksy.agents[a].jobCount =
           Cardinality({k \in 1..Len(geeksy.jobExecutions) :
                          geeksy.jobExecutions[k].agentId = a})

====
